---- MODULE Spec2Model ----
(***************************************************************************)
(* State-machine model of the agent orchestrator:                          *)
(*   - Agent            (src/orchestrator/core/agent.py)                   *)
(*   - AgentManager     (src/orchestrator/core/agent_manager.py)           *)
(*   - WorkflowExecutor (src/orchestrator/workflow/executor.py)            *)
(*   - Orchestrator     (src/orchestrator/core/orchestrator.py)            *)
(*                                                                         *)
(* The program runs on one asyncio event loop.  A coroutine is atomic      *)
(* between two real suspension points; the only real suspension points of  *)
(* Agent.execute_task and Agent.send_message are the reads of the SDK      *)
(* stream (async for ... in query(...)), and the one of                    *)
(* execute_with_dependencies is asyncio.sleep(0.1).  Every action below is *)
(* one such atomic stretch of code.                                        *)
(***************************************************************************)
EXTENDS Integers, Sequences, FiniteSets, TLC

(***************************************************************************)
(* Bounds of the model                                                     *)
(***************************************************************************)
MaxAgents == 2      \* agent ids the registry can hand out (uuid4 values)
MaxBlocks == 2      \* messages one SDK stream yields before it ends
MaxCalls == 1       \* manual execute_task / send_message / update_agent_status calls of one run
MaxSubtasks == 2    \* subtasks of a plan
MaxMessages == 2    \* messages the SDK streams deliver in one run that follows the data
MaxToolBlocks == 3  \* tool blocks the stream of a session delivers
MaxLines == 3       \* lines of the output an agent returns
MaxClients == 3     \* WebSocket clients of the dashboard
MaxPublications == 2 \* messages the dashboard publishes
MaxChain == 3       \* subtasks of a sequential plan whose context is followed
MaxWords == 51      \* plain words of a task description
MaxTurns == 2       \* execute_task and send_message calls made on the sessions of one run
MaxSteps == 3       \* subtasks of the plan the dashboard executes

\* Every subtask of a plan gets an agent of its own, so the id space covers both.
Ids == 1..(IF MaxAgents > MaxSubtasks THEN MaxAgents ELSE MaxSubtasks)

(***************************************************************************)
(* AgentStatus (types.py:9-17).  "NONE" marks an id whose Agent object has *)
(* not been constructed yet.                                               *)
(***************************************************************************)
AgentStatus == {"CREATED", "RUNNING", "WAITING", "COMPLETED", "FAILED", "DELETED"}

NoSession == "None"
NoError == "None"
NoneOutput == -1

\* Message kinds the SDK stream yields to the session (agent.py:110-132).
BlockKinds == {"Text", "ToolUse", "Result"}

\* The kinds the streams of the checked runs yield.
StreamKinds == {"Text", "Result"}

VARIABLES
    agents,      \* AgentManager.agents: the ids that are keys of the map
    nextId,      \* how many uuid4 ids have been drawn so far
    status,      \* Agent.status of every Agent object (it outlives the map entry)
    session_id,  \* Agent.config.session_id
    hasCb,       \* Agent.progress_callback is set
    metrics,     \* Agent.metrics
    execPc,      \* position of the execute_task coroutine of the agent
    execOut,     \* its local output_text (number of TextBlocks appended)
    execRes,     \* what execute_task returned (TaskResult) or raised
    sendPc,      \* position of the send_message coroutine of the agent
    sendOut,     \* its local output_text
    nblocks,     \* messages the current streams have yielded so far
    calls,       \* manual calls made so far
    fed,         \* ghost: what the SDK streams delivered to the session so far
    hist,        \* ghost: the successive values of Agent.status
    deletedOk,   \* ghost: ids for which delete_agent returned True
    lastDelete,  \* ghost: the last delete_agent call and what it returned
    mode,        \* execution mode of the plan
    nsub,        \* len(task.subtasks)
    dependencies,\* the dependencies argument of execute_with_dependencies
    assigned,    \* task.assigned_agents
    agentOf,     \* the agent the executor created for each subtask index
    exPc,        \* position of the executor coroutine
    idx,         \* loop index of the executor (0-based count of finished iterations)
    subPc,       \* position of every execute_subtask / gathered coroutine
    completed,   \* the local set `completed` of execute_with_dependencies
    resultOf,    \* results recorded per subtask index (dict `results` / gather slots)
    returned,    \* the list the executor returned
    orchPc,      \* position of Orchestrator.execute
    finishOrder  \* ghost: subtask indices in the order their execute_task calls ended

\* The data the sessions of a plan gather and what Orchestrator.execute makes
\* of it.
VARIABLES
    subMetrics,  \* Agent.metrics of the session of every subtask, field by field
    subPhase,    \* where the session of every subtask is ("new", "running", "done")
    subResults,  \* the list of TaskResults the executor hands to _aggregate_results
    aggregated,  \* the TaskResult _aggregate_results returned
    task,        \* the stored OrchestratorTask: status, completed_at, result
    delivered,   \* messages the SDK streams of the run have delivered so far
    tool_calls,  \* Agent.tool_calls of the session of every subtask
    toolUses,    \* ghost: the ToolUseBlocks the stream of every session has delivered
    toolGhost,   \* ghost: which ToolCalls have been answered, and the last ToolResultBlock
    ctxRole,     \* subtask["role"] of the subtask whose output is parsed
    outputs,     \* TaskResult.output of that subtask's agent, as lines, in each of two runs
    previous_context,  \* previous_context of execute_sequential in each run
    agent_contexts,    \* executor.agent_contexts[agent_id] in each run
    prompts      \* task_prompt built for the next subtask in each run

\* The orchestrator's life cycle, the progress events of a session, the
\* dashboard's WebSocket connections and the stored complexity of a task.
VARIABLES
    monitoring,          \* AgentMonitor.monitoring
    monitoring_task,     \* position of the task Orchestrator.start created
    stopPc,              \* position of the caller of start() and stop()
    events,              \* ghost: what a session's progress callback and metrics saw, in order
    active_connections,  \* ConnectionManager.active_connections
    bcast,               \* the running ConnectionManager._broadcast call
    received,            \* ghost: the messages every WebSocket client received, in order
    sweep,               \* the running delete_all_agents / cleanup_workflow_agents call
    classified           \* a task description and the complexity computed for it

\* The dashboard's execution service, the progress tracker fed by the
\* executor, and the prompt log of every session.
VARIABLES
    dash,                \* the running OrchestratorExecutor.execute_task call and its Task row
    tracker,             \* ProgressTracker.agents[agent_id] and the handler calls made for it
    prompt_file,         \* content of the session's prompt.txt
    task_prompt          \* ghost: the prompt of the session's last execute_task call

extraVars == <<monitoring, monitoring_task, stopPc, events, active_connections,
               bcast, received, sweep, classified,
          dash, tracker, prompt_file, task_prompt>>

obsVars == <<dash, tracker, prompt_file, task_prompt>>

toolVars == <<tool_calls, toolUses, toolGhost>>

ctxVars == <<ctxRole, outputs, previous_context, agent_contexts, prompts>>

dataVars == <<subMetrics, subPhase, subResults, aggregated, task, delivered,
              tool_calls, toolUses, toolGhost,
              ctxRole, outputs, previous_context, agent_contexts, prompts,
              monitoring, monitoring_task, stopPc, events, active_connections,
              bcast, received, sweep, classified,
          dash, tracker, prompt_file, task_prompt>>

vars == <<agents, nextId, status, session_id, hasCb, metrics, execPc, execOut,
          execRes, sendPc, sendOut, nblocks, calls, fed, hist, deletedOk,
          lastDelete, mode, nsub, dependencies, assigned, agentOf, exPc, idx,
          subPc, completed, resultOf, returned, orchPc, finishOrder,
          subMetrics, subPhase, subResults, aggregated, task, delivered,
          tool_calls, toolUses, toolGhost,
          ctxRole, outputs, previous_context, agent_contexts, prompts,
          monitoring, monitoring_task, stopPc, events, active_connections,
          bcast, received, sweep, classified,
          dash, tracker, prompt_file, task_prompt>>

sessionVars == <<agents, nextId, status, session_id, hasCb, metrics, execPc,
                 execOut, execRes, sendPc, sendOut, nblocks, calls, fed, hist,
                 deletedOk, lastDelete>>

planVars == <<mode, nsub, dependencies, assigned, agentOf, exPc, idx, subPc,
              completed, resultOf, returned, orchPc, finishOrder>>


(***************************************************************************)
(* Records                                                                 *)
(***************************************************************************)
\* AgentMetrics(agent_id=...) with its defaults (types.py:44-60).
AgentMetrics == [input_tokens |-> 0, total_tokens |-> 0, tool_calls |-> 0, messages_sent |-> 0]

NoFeed == [tool_uses |-> 0, tokens |-> 0]

\* TaskResult (types.py:85-95).  Its metrics field is a reference to the
\* Agent's own metrics object (metrics=self.metrics), so the metrics of a
\* result r are metrics[r.agent_id].
TaskResult(a, ok, out, err) ==
    [kind |-> "TaskResult", agent_id |-> a, success |-> ok, output |-> out, error |-> err]

\* An exception that left a coroutine (str(e) is kept in error).
ExceptionObj(err) ==
    [kind |-> "Exception", agent_id |-> 0, success |-> FALSE, output |-> NoneOutput, error |-> err]

NoResult == [kind |-> "None", agent_id |-> 0, success |-> FALSE, output |-> NoneOutput, error |-> NoError]

\* One assignment to Agent.status, seen by an observer of the field.
HistAfter(h, s) == IF h # <<>> /\ h[Len(h)] = s THEN h ELSE Append(h, s)

(***************************************************************************)
(* AgentManager reads                                                      *)
(***************************************************************************)
\* get_agent: self.agents.get(agent_id); 0 stands for None.
get_agent(a) == IF a \in agents THEN a ELSE 0

\* list_agents(status=...): "Any" stands for no filter.
list_agents(st) == {a \in agents : st = "Any" \/ status[a] = st}

get_active_agents == {a \in agents : status[a] # "DELETED"}

(***************************************************************************)
(* AgentManager.create_agent / create_specialized_agent                    *)
(***************************************************************************)
\* The Agent constructor and the insertion self.agents[agent_id] = agent.
\* cb tells whether the creator attaches a progress callback afterwards.
NewAgent(a, cb) ==
    /\ agents' = agents \cup {a}
    /\ nextId' = a
    /\ status' = [status EXCEPT ![a] = "CREATED"]
    /\ hist' = [hist EXCEPT ![a] = <<"CREATED">>]
    /\ session_id' = [session_id EXCEPT ![a] = NoSession]
    /\ hasCb' = [hasCb EXCEPT ![a] = cb]
    /\ metrics' = [metrics EXCEPT ![a] = AgentMetrics]

\* Orchestrator.create_agent: manual creation, no progress callback.
CreateAgent ==
    /\ nextId < MaxAgents
    /\ NewAgent(nextId + 1, FALSE)
    /\ UNCHANGED <<execPc, execOut, execRes, sendPc, sendOut, nblocks, calls, fed,
                   deletedOk, lastDelete>>
    /\ UNCHANGED planVars

(***************************************************************************)
(* Agent.execute_task                                                      *)
(***************************************************************************)
\* Lines 90-95: RUNNING, then the "started" callback, then the first read.
ExecBegin(a) ==
    /\ status' = [status EXCEPT ![a] = "RUNNING"]
    /\ hist' = [hist EXCEPT ![a] = HistAfter(@, "RUNNING")]
    /\ execPc' = [execPc EXCEPT ![a] = "stream"]
    /\ execOut' = [execOut EXCEPT ![a] = 0]
    /\ execRes' = [execRes EXCEPT ![a] = NoResult]
    /\ nblocks' = [nblocks EXCEPT ![a].e = 0]

\* The "started" callback raises: it is invoked before the try block, so the
\* exception leaves execute_task and the status stays RUNNING.
ExecBeginRaise(a) ==
    /\ status' = [status EXCEPT ![a] = "RUNNING"]
    /\ hist' = [hist EXCEPT ![a] = HistAfter(@, "RUNNING")]
    /\ execPc' = [execPc EXCEPT ![a] = "raised"]
    /\ execOut' = [execOut EXCEPT ![a] = 0]
    /\ execRes' = [execRes EXCEPT ![a] = ExceptionObj("callback error")]
    /\ nblocks' = [nblocks EXCEPT ![a].e = 0]

\* _track_tool_use (243-261) and _update_metrics_from_result (211-241) on the
\* metrics record; a TextBlock leaves the metrics alone.
MetricsAfterBlock(m, k) ==
    CASE k = "ToolUse" -> [m EXCEPT !.tool_calls = @ + 1]
      [] k = "Result" -> [m EXCEPT !.input_tokens = @ + 1, !.total_tokens = m.input_tokens + 1]
      [] OTHER -> m

FeedAfterBlock(f, k) ==
    CASE k = "ToolUse" -> [f EXCEPT !.tool_uses = @ + 1]
      [] k = "Result" -> [f EXCEPT !.tokens = @ + 1]
      [] OTHER -> f

\* One message of the stream is processed (lines 106-132).
ExecBlock(a, k) ==
    /\ execPc[a] = "stream"
    /\ nblocks[a].e < MaxBlocks
    /\ nblocks' = [nblocks EXCEPT ![a].e = @ + 1]
    /\ execOut' = [execOut EXCEPT ![a] = IF k = "Text" THEN @ + 1 ELSE @]
    /\ metrics' = [metrics EXCEPT ![a] = MetricsAfterBlock(@, k)]
    /\ fed' = [fed EXCEPT ![a] = FeedAfterBlock(@, k)]
    /\ session_id' = [session_id EXCEPT ![a] = IF k = "Result" THEN "sid" ELSE @]
    /\ UNCHANGED <<agents, nextId, status, hasCb, execPc, execRes, sendPc, sendOut,
                   calls, hist, deletedOk, lastDelete>>

\* The stream is exhausted (lines 134-149).
ExecComplete(a) ==
    /\ metrics' = [metrics EXCEPT ![a].messages_sent = @ + 1]
    /\ status' = [status EXCEPT ![a] = "COMPLETED"]
    /\ hist' = [hist EXCEPT ![a] = HistAfter(@, "COMPLETED")]
    /\ execPc' = [execPc EXCEPT ![a] = "done"]
    /\ execRes' = [execRes EXCEPT ![a] = TaskResult(a, TRUE, execOut[a], NoError)]

\* How execute_task ends once the except branch has run (lines 151-166):
\* it returns the failed TaskResult.
FailureExit_reraise(a, err) ==
    /\ execPc' = [execPc EXCEPT ![a] = "raised"]
    /\ execRes' = [execRes EXCEPT ![a] = ExceptionObj(err)]

FailureExit(a, err) ==
    /\ execPc' = [execPc EXCEPT ![a] = "done"]
    /\ execRes' = [execRes EXCEPT ![a] = TaskResult(a, FALSE, NoneOutput, err)]

\* except Exception as e (lines 151-166).
ExecHandleException(a, err) ==
    /\ status' = [status EXCEPT ![a] = "FAILED"]
    /\ hist' = [hist EXCEPT ![a] = HistAfter(@, "FAILED")]
    /\ FailureExit(a, err)
    /\ UNCHANGED metrics

ExecStreamEnd(a) ==
    /\ execPc[a] = "stream"
    /\ ExecComplete(a)
    /\ UNCHANGED <<agents, nextId, session_id, hasCb, execOut, sendPc, sendOut,
                   nblocks, calls, fed, deletedOk, lastDelete>>

\* A read of the stream raises after any prefix of messages.
ExecStreamRaise(a) ==
    /\ execPc[a] = "stream"
    /\ ExecHandleException(a, "stream error")
    /\ UNCHANGED <<agents, nextId, session_id, hasCb, execOut, sendPc, sendOut,
                   nblocks, calls, fed, deletedOk, lastDelete>>


\* Exceptions raised by the progress callback.  Inside the try block (the
\* "thinking", "tool_call" and "completed" invocations) they reach the except
\* branch like a stream error; here the "completed" invocation raises, after
\* lines 134-137 have run.
ExecCallbackRaise(a) ==
    /\ execPc[a] = "stream"
    /\ hasCb[a]
    /\ metrics' = [metrics EXCEPT ![a].messages_sent = @ + 1]
    /\ status' = [status EXCEPT ![a] = "FAILED"]
    /\ hist' = [hist EXCEPT ![a] = HistAfter(HistAfter(@, "COMPLETED"), "FAILED")]
    /\ FailureExit(a, "callback error")
    /\ UNCHANGED <<agents, nextId, session_id, hasCb, execOut, sendPc, sendOut,
                   nblocks, calls, fed, deletedOk, lastDelete>>

\* The stream raises and then the "failed" invocation of the callback, made
\* inside the except branch (line 157), raises too: that exception leaves
\* execute_task.
ExecFailedCallbackRaise(a) ==
    /\ execPc[a] = "stream"
    /\ hasCb[a]
    /\ status' = [status EXCEPT ![a] = "FAILED"]
    /\ hist' = [hist EXCEPT ![a] = HistAfter(@, "FAILED")]
    /\ execPc' = [execPc EXCEPT ![a] = "raised"]
    /\ execRes' = [execRes EXCEPT ![a] = ExceptionObj("callback error")]
    /\ UNCHANGED <<agents, nextId, session_id, hasCb, metrics, execOut, sendPc,
                   sendOut, nblocks, calls, fed, deletedOk, lastDelete>>

(***************************************************************************)
(* Agent.send_message (agent.py:168-209)                                   *)
(***************************************************************************)
SendBegin(a) ==
    /\ status' = [status EXCEPT ![a] = "RUNNING"]
    /\ hist' = [hist EXCEPT ![a] = HistAfter(@, "RUNNING")]
    /\ sendPc' = [sendPc EXCEPT ![a] = "stream"]
    /\ sendOut' = [sendOut EXCEPT ![a] = 0]
    /\ nblocks' = [nblocks EXCEPT ![a].s = 0]

SendBlock(a, k) ==
    /\ sendPc[a] = "stream"
    /\ nblocks[a].s < MaxBlocks
    /\ nblocks' = [nblocks EXCEPT ![a].s = @ + 1]
    /\ sendOut' = [sendOut EXCEPT ![a] = IF k = "Text" THEN @ + 1 ELSE @]
    /\ metrics' = [metrics EXCEPT ![a] = MetricsAfterBlock(@, k)]
    /\ fed' = [fed EXCEPT ![a] = FeedAfterBlock(@, k)]
    /\ session_id' = [session_id EXCEPT ![a] = IF k = "Result" THEN "sid" ELSE @]
    /\ UNCHANGED <<agents, nextId, status, hasCb, execPc, execOut, execRes, sendPc,
                   calls, hist, deletedOk, lastDelete>>

\* Lines 207-209.
SendStreamEnd(a) ==
    /\ sendPc[a] = "stream"
    /\ metrics' = [metrics EXCEPT ![a].messages_sent = @ + 1]
    /\ status' = [status EXCEPT ![a] = "WAITING"]
    /\ hist' = [hist EXCEPT ![a] = HistAfter(@, "WAITING")]
    /\ sendPc' = [sendPc EXCEPT ![a] = "done"]
    /\ UNCHANGED <<agents, nextId, session_id, hasCb, execPc, execOut, execRes,
                   sendOut, nblocks, calls, fed, deletedOk, lastDelete>>

\* send_message has no try block: a stream error leaves the call.
SendStreamRaise(a) ==
    /\ sendPc[a] = "stream"
    /\ sendPc' = [sendPc EXCEPT ![a] = "raised"]
    /\ UNCHANGED <<agents, nextId, status, session_id, hasCb, metrics, execPc,
                   execOut, execRes, sendOut, nblocks, calls, fed, hist, deletedOk,
                   lastDelete>>

(***************************************************************************)
(* Manual control: callers that hold a session obtained from the registry  *)
(***************************************************************************)
\* agent = manager.get_agent(id); await agent.execute_task(prompt)
ExecuteTask(a) ==
    /\ get_agent(a) # 0
    /\ execPc[a] # "stream"
    /\ calls < MaxCalls
    /\ calls' = calls + 1
    /\ ExecBegin(a)
    /\ UNCHANGED <<agents, nextId, session_id, hasCb, metrics, sendPc, sendOut, fed,
                   deletedOk, lastDelete>>

\* Orchestrator.send_to_agent (orchestrator.py:544-562).
SendToAgent(a) ==
    /\ get_agent(a) # 0
    /\ sendPc[a] # "stream"
    /\ calls < MaxCalls
    /\ calls' = calls + 1
    /\ SendBegin(a)
    /\ UNCHANGED <<agents, nextId, session_id, hasCb, metrics, execPc, execOut,
                   execRes, fed, deletedOk, lastDelete>>

\* AgentManager.update_agent_status (agent_manager.py:441-466).
UpdateAgentStatus(a, s) ==
    /\ get_agent(a) # 0
    /\ calls < MaxCalls
    /\ calls' = calls + 1
    /\ status' = [status EXCEPT ![a] = s]
    /\ hist' = [hist EXCEPT ![a] = HistAfter(@, s)]
    /\ UNCHANGED <<agents, nextId, session_id, hasCb, metrics, execPc, execOut,
                   execRes, sendPc, sendOut, nblocks, fed, deletedOk, lastDelete>>

(***************************************************************************)
(* AgentManager.delete_agent (agent_manager.py:469-495)                    *)
(***************************************************************************)
\* del self.agents[agent_id]
MapWithout_keep(reg, a) == reg

MapWithout(reg, a) == reg \ {a}

\* Agent.cleanup (agent.py:329-333) followed by the removal from the map.
DeleteFound(a) ==
    /\ status' = [status EXCEPT ![a] = "DELETED"]
    /\ hist' = [hist EXCEPT ![a] = HistAfter(@, "DELETED")]
    /\ session_id' = [session_id EXCEPT ![a] = NoSession]
    /\ agents' = MapWithout(agents, a)
    /\ deletedOk' = deletedOk \cup {a}

\* delete_agent(a) for any id, present or not; ret is its return value.
DeleteAgent(a) ==
    /\ IF get_agent(a) # 0
          THEN /\ DeleteFound(a)
               /\ lastDelete' = [id |-> a, ret |-> TRUE]
          ELSE /\ lastDelete' = [id |-> a, ret |-> FALSE]
               /\ UNCHANGED <<agents, status, hist, session_id, deletedOk>>
    /\ UNCHANGED <<nextId, hasCb, metrics, execPc, execOut, execRes, sendPc, sendOut,
                   nblocks, calls, fed>>

(***************************************************************************)
(* Initial state: an Orchestrator right after construction                 *)
(***************************************************************************)
SessionInit ==
    /\ agents = {}
    /\ nextId = 0
    /\ status = [a \in Ids |-> "NONE"]
    /\ session_id = [a \in Ids |-> NoSession]
    /\ hasCb = [a \in Ids |-> FALSE]
    /\ metrics = [a \in Ids |-> AgentMetrics]
    /\ execPc = [a \in Ids |-> "idle"]
    /\ execOut = [a \in Ids |-> 0]
    /\ execRes = [a \in Ids |-> NoResult]
    /\ sendPc = [a \in Ids |-> "idle"]
    /\ sendOut = [a \in Ids |-> 0]
    /\ nblocks = [a \in Ids |-> [e |-> 0, s |-> 0]]
    /\ calls = 0
    /\ fed = [a \in Ids |-> NoFeed]
    /\ hist = [a \in Ids |-> <<>>]
    /\ deletedOk = {}
    /\ lastDelete = [id |-> 0, ret |-> FALSE]

PlanIdle ==
    /\ mode = "none"
    /\ nsub = 0
    /\ dependencies = <<>>
    /\ assigned = <<>>
    /\ agentOf = <<>>
    /\ exPc = "idle"
    /\ idx = 0
    /\ subPc = <<>>
    /\ completed = {}
    /\ resultOf = <<>>
    /\ returned = <<>>
    /\ orchPc = "idle"
    /\ finishOrder = <<>>

(***************************************************************************)
(* Spec: sessions under manual control (create / execute / send / update / *)
(* delete), every call running as its own asyncio task.                    *)
(***************************************************************************)
\* The orchestrator is not started, no progress event was sent, no client is
\* connected and no description is classified outside the specifications of
\* these parts.
\* WebSocket objects of the dashboard, and the state before any _broadcast.
Clients == 1..MaxClients

NoBroadcast == [pc |-> "idle", n |-> 0, start |-> {}, visited |-> {}, disconnected |-> {},
                size |-> 0, cur |-> 0]

\* No delete_all_agents or cleanup_workflow_agents call has been made.
NoSweep == [pc |-> "idle", targets |-> {}, count |-> 0]

\* No task description has been classified.
NotClassified == [pc |-> "idle", description |-> "None", complexity |-> "None"]

\* No OrchestratorExecutor.execute_task call has been made.  The Task row is
\* PENDING (tasks.py:232) and its current_step column is NULL, written -1.
NoDash == [pc |-> "idle", status |-> "PENDING", current_step |-> -1, tracker_step |-> 0,
           n |-> 0, k |-> 0, results |-> <<>>, agentRows |-> <<>>, started |-> <<>>,
           statusLog |-> <<"PENDING">>]

\* The progress tracker has no entry for a session.
NoTracker == [status |-> "None", handlers |-> <<>>]

ExtraIdle ==
    /\ monitoring = FALSE
    /\ monitoring_task = "None"
    /\ stopPc = "new"
    /\ events = [a \in Ids |-> <<>>]
    /\ active_connections = {}
    /\ bcast = NoBroadcast
    /\ received = [c \in Clients |-> [state |-> "new", log |-> <<>>]]
    /\ sweep = NoSweep
    /\ classified = NotClassified
    /\ dash = NoDash
    /\ tracker = [a \in Ids |-> NoTracker]
    /\ prompt_file = [a \in Ids |-> <<>>]
    /\ task_prompt = [a \in Ids |-> <<>>]

\* No output is parsed outside the specification of the context passing.
ContextIdle ==
    /\ ctxRole = "None"
    /\ outputs = <<>>
    /\ previous_context = <<>>
    /\ agent_contexts = <<>>
    /\ prompts = <<>>

\* The metrics, results and tool calls of a plan before any of them exists.
MetricsIdle ==
    /\ subMetrics = <<>>
    /\ subPhase = <<>>
    /\ subResults = <<>>
    /\ aggregated = [kind |-> "None"]
    /\ task = [status |-> "CREATED", completed_at |-> "None", result |-> "None"]
    /\ delivered = 0
    /\ tool_calls = <<>>
    /\ toolUses = <<>>
    /\ toolGhost = <<>>

\* No plan data is gathered outside the specifications that follow a plan's
\* data.
DataIdle == MetricsIdle /\ ContextIdle /\ ExtraIdle

Init == SessionInit /\ PlanIdle /\ DataIdle

Next ==
    \/ CreateAgent /\ UNCHANGED dataVars
    \/ \E a \in Ids : ExecuteTask(a) /\ UNCHANGED planVars /\ UNCHANGED dataVars
    \/ \E a \in Ids, k \in StreamKinds : ExecBlock(a, k) /\ UNCHANGED planVars /\ UNCHANGED dataVars
    \/ \E a \in Ids : ExecStreamEnd(a) /\ UNCHANGED planVars /\ UNCHANGED dataVars
    \/ \E a \in Ids : ExecStreamRaise(a) /\ UNCHANGED planVars /\ UNCHANGED dataVars
    \/ \E a \in Ids : SendToAgent(a) /\ UNCHANGED planVars /\ UNCHANGED dataVars
    \/ \E a \in Ids, k \in StreamKinds : SendBlock(a, k) /\ UNCHANGED planVars /\ UNCHANGED dataVars
    \/ \E a \in Ids : SendStreamEnd(a) /\ UNCHANGED planVars /\ UNCHANGED dataVars
    \/ \E a \in Ids : SendStreamRaise(a) /\ UNCHANGED planVars /\ UNCHANGED dataVars
    \/ \E a \in Ids, s \in AgentStatus : UpdateAgentStatus(a, s) /\ UNCHANGED planVars /\ UNCHANGED dataVars
    \/ \E a \in Ids : DeleteAgent(a) /\ UNCHANGED planVars /\ UNCHANGED dataVars

Spec == Init /\ [][Next]_vars


(***************************************************************************)
(* WorkflowExecutor: agent creation for a subtask                          *)
(***************************************************************************)
Indices == 1..nsub

\* The subtask index an agent was created for (0: none).
IndexOf(a) == IF \E i \in Indices : agentOf[i] = a
              THEN CHOOSE i \in Indices : agentOf[i] = a
              ELSE 0

\* agent = await create_specialized_agent(...); task.assigned_agents.append(id)
\* The executor's call passes the keywords role, task_context, constraints
\* and task_id (executor.py:338-343, 800-805, 887-892).  The signature at
\* agent_manager.py:311-318 declares neither constraints nor task_id, so with
\* this AgentManager the call raises TypeError before any session exists:
\* that outcome is CreateRaises(FALSE).  CreateForSubtask is the outcome of
\* the call with a manager that accepts the keywords: the session is built
\* and registered as create_agent does (281-309).
CreateForSubtask(i, cb) ==
    /\ NewAgent(nextId + 1, cb)
    /\ assigned' = Append(assigned, nextId + 1)
    /\ agentOf' = [agentOf EXCEPT ![i] = nextId + 1]

\* The creation raises: either before the session is registered (binding of
\* the call's arguments, the Agent constructor creating its log directory) or
\* after it (the monitor's log_agent_created).  In the second case the session
\* is in the registry but was never appended to task.assigned_agents.
CreateRaises(registered) ==
    /\ IF registered
          THEN NewAgent(nextId + 1, FALSE)
          ELSE UNCHANGED <<agents, nextId, status, hist, session_id, hasCb, metrics>>
    /\ exPc' = "raised"
    /\ UNCHANGED <<execPc, execOut, execRes, sendPc, sendOut, nblocks, calls, fed,
                   deletedOk, lastDelete>>
    /\ UNCHANGED <<mode, nsub, dependencies, assigned, agentOf, idx, subPc, completed,
                   resultOf, returned, orchPc, finishOrder>>

(***************************************************************************)
(* The sessions of a plan: their streams run while the executor waits      *)
(***************************************************************************)
PlanExecBlock(a, k) == ExecBlock(a, k) /\ UNCHANGED planVars

Finished(a) ==
    /\ finishOrder' = Append(finishOrder, IndexOf(a))
    /\ UNCHANGED <<mode, nsub, dependencies, assigned, agentOf, exPc, idx, subPc,
                   completed, resultOf, returned, orchPc>>

PlanExecStreamEnd(a) == ExecStreamEnd(a) /\ Finished(a)

PlanExecStreamRaise(a) == ExecStreamRaise(a) /\ Finished(a)

PlanExecCallbackRaise(a) == ExecCallbackRaise(a) /\ Finished(a)

PlanExecFailedCallbackRaise(a) == ExecFailedCallbackRaise(a) /\ Finished(a)

\* execute_task has returned or raised: the awaiting executor can go on.
CallOver_noAwait(a) == TRUE

CallOver(a) == execPc[a] \in {"done", "raised"}

(***************************************************************************)
(* WorkflowExecutor.execute_sequential (executor.py:305-391)               *)
(***************************************************************************)
\* Lines 337-353 of iteration idx.
SeqCreate ==
    /\ mode = "sequential"
    /\ exPc = "loop"
    /\ idx < nsub
    /\ CreateForSubtask(idx + 1, TRUE)
    /\ exPc' = "start"
    /\ UNCHANGED <<execPc, execOut, execRes, sendPc, sendOut, nblocks, calls, fed,
                   deletedOk, lastDelete>>
    /\ UNCHANGED <<mode, nsub, dependencies, idx, subPc, completed, resultOf,
                   returned, orchPc, finishOrder>>

SeqCreateRaises ==
    /\ mode = "sequential"
    /\ exPc = "loop"
    /\ idx < nsub
    /\ \E registered \in BOOLEAN : CreateRaises(registered)

\* Line 364 up to the first read of the stream.
SeqStart ==
    /\ mode = "sequential"
    /\ exPc = "start"
    /\ ExecBegin(agentOf[idx + 1])
    /\ exPc' = "await"
    /\ UNCHANGED <<agents, nextId, session_id, hasCb, metrics, sendPc, sendOut, calls,
                   fed, deletedOk, lastDelete>>
    /\ UNCHANGED <<mode, nsub, dependencies, assigned, agentOf, idx, subPc, completed,
                   resultOf, returned, orchPc, finishOrder>>

\* The "started" callback raises: execute_task raises into the executor.
SeqStartRaises ==
    /\ mode = "sequential"
    /\ exPc = "start"
    /\ ExecBeginRaise(agentOf[idx + 1])
    /\ exPc' = "await"
    /\ finishOrder' = Append(finishOrder, idx + 1)
    /\ UNCHANGED <<agents, nextId, session_id, hasCb, metrics, sendPc, sendOut, calls,
                   fed, deletedOk, lastDelete>>
    /\ UNCHANGED <<mode, nsub, dependencies, assigned, agentOf, idx, subPc, completed,
                   resultOf, returned, orchPc>>

\* Lines 365-386: the await of execute_task is over; its result is appended
\* and the loop goes to the next subtask.  An exception of execute_task
\* leaves execute_sequential.
SeqCollect ==
    /\ mode = "sequential"
    /\ exPc = "await"
    /\ CallOver(agentOf[idx + 1])
    /\ IF execPc[agentOf[idx + 1]] = "raised"
          THEN /\ exPc' = "raised"
               /\ UNCHANGED <<resultOf, idx>>
          ELSE /\ resultOf' = [resultOf EXCEPT ![idx + 1] = execRes[agentOf[idx + 1]]]
               /\ idx' = idx + 1
               /\ exPc' = "loop"
    /\ UNCHANGED sessionVars
    /\ UNCHANGED <<mode, nsub, dependencies, assigned, agentOf, subPc, completed,
                   returned, orchPc, finishOrder>>

\* Line 391.
SeqReturn ==
    /\ mode = "sequential"
    /\ exPc = "loop"
    /\ idx = nsub
    /\ returned' = [i \in Indices |-> resultOf[i]]
    /\ exPc' = "returned"
    /\ UNCHANGED sessionVars
    /\ UNCHANGED <<mode, nsub, dependencies, assigned, agentOf, idx, subPc, completed,
                   resultOf, orchPc, finishOrder>>

(***************************************************************************)
(* WorkflowExecutor.execute_parallel (executor.py:770-851)                 *)
(***************************************************************************)
\* One iteration of the creation loop (lines 799-816).
ParCreate ==
    /\ mode = "parallel"
    /\ exPc = "loop"
    /\ idx < nsub
    /\ CreateForSubtask(idx + 1, TRUE)
    /\ idx' = idx + 1
    /\ UNCHANGED <<execPc, execOut, execRes, sendPc, sendOut, nblocks, calls, fed,
                   deletedOk, lastDelete>>
    /\ UNCHANGED <<mode, nsub, dependencies, exPc, subPc, completed, resultOf,
                   returned, orchPc, finishOrder>>

ParCreateRaises ==
    /\ mode = "parallel"
    /\ exPc = "loop"
    /\ idx < nsub
    /\ \E registered \in BOOLEAN : CreateRaises(registered)

\* Lines 819-824: asyncio.gather(*tasks_to_execute, return_exceptions=True).
ParGather ==
    /\ mode = "parallel"
    /\ exPc = "loop"
    /\ idx = nsub
    /\ exPc' = "gather"
    /\ UNCHANGED sessionVars
    /\ UNCHANGED <<mode, nsub, dependencies, assigned, agentOf, idx, subPc, completed,
                   resultOf, returned, orchPc, finishOrder>>

\* The task gather made for subtask i runs execute_task up to its first read.
ParStart(i) ==
    /\ mode = "parallel"
    /\ exPc = "gather"
    /\ subPc[i] = "pending"
    /\ ExecBegin(agentOf[i])
    /\ subPc' = [subPc EXCEPT ![i] = "started"]
    /\ UNCHANGED <<agents, nextId, session_id, hasCb, metrics, sendPc, sendOut, calls,
                   fed, deletedOk, lastDelete>>
    /\ UNCHANGED <<mode, nsub, dependencies, assigned, agentOf, exPc, idx, completed,
                   resultOf, returned, orchPc, finishOrder>>

ParStartRaises(i) ==
    /\ mode = "parallel"
    /\ exPc = "gather"
    /\ subPc[i] = "pending"
    /\ ExecBeginRaise(agentOf[i])
    /\ subPc' = [subPc EXCEPT ![i] = "started"]
    /\ finishOrder' = Append(finishOrder, i)
    /\ UNCHANGED <<agents, nextId, session_id, hasCb, metrics, sendPc, sendOut, calls,
                   fed, deletedOk, lastDelete>>
    /\ UNCHANGED <<mode, nsub, dependencies, assigned, agentOf, exPc, idx, completed,
                   resultOf, returned, orchPc>>

\* gather(return_exceptions=True) completes when every awaitable has returned
\* or raised; no awaitable is cancelled because another one failed.
GatherDone_firstException ==
    \/ \A i \in Indices : subPc[i] = "started" /\ CallOver(agentOf[i])
    \/ \E i \in Indices : subPc[i] = "started" /\ CallOver(agentOf[i])
                          /\ ~(execRes[agentOf[i]].kind = "TaskResult"
                               /\ execRes[agentOf[i]].success)

GatherDone == \A i \in Indices : subPc[i] = "started" /\ CallOver(agentOf[i])

\* The list gather returns: slot i holds the outcome of awaitable i, whatever
\* the order fin in which the awaitables finished.
GatherResults_completionOrder(fin) ==
    [i \in Indices |-> IF i <= Len(fin) THEN execRes[agentOf[fin[i]]] ELSE NoResult]

GatherResults(fin) == [i \in Indices |-> execRes[agentOf[i]]]

\* Lines 828-849 for one (agent, result) pair of the zip.
ProcessResult(a, r) ==
    IF r.kind = "Exception" THEN TaskResult(a, FALSE, NoneOutput, r.error) ELSE r

ParProcess ==
    /\ mode = "parallel"
    /\ exPc = "gather"
    /\ GatherDone
    /\ resultOf' = GatherResults(finishOrder)
    /\ returned' = [i \in Indices |-> ProcessResult(agentOf[i], GatherResults(finishOrder)[i])]
    /\ exPc' = "returned"
    /\ UNCHANGED sessionVars
    /\ UNCHANGED <<mode, nsub, dependencies, assigned, agentOf, idx, subPc, completed,
                   orchPc, finishOrder>>

(***************************************************************************)
(* WorkflowExecutor.cleanup_workflow_agents (executor.py:930-947) and the  *)
(* end of Orchestrator.execute (orchestrator.py:326-357)                   *)
(***************************************************************************)
\* The ids the cleanup loop deletes: for agent_id in task.assigned_agents.
CleanupTargets_finishedOnly(ids) ==
    SelectSeq(ids, LAMBDA a : status[a] \in {"COMPLETED", "FAILED"})

CleanupTargets(ids) == ids

\* The registry after delete_agent has been called on every id of the list.
RECURSIVE CleanupMap(_, _)
CleanupMap(reg, ids) ==
    IF ids = <<>> THEN reg ELSE CleanupMap(MapWithout(reg, Head(ids)), Tail(ids))

SeqRange(q) == {q[i] : i \in 1..Len(q)}

\* The executor has returned or raised; the finally block stops the tracker
\* and deletes the agents of the plan; then execute returns the aggregated
\* result or re-raises.
OrchFinish ==
    /\ orchPc = "executing"
    /\ exPc \in {"returned", "raised"}
    /\ LET targets == CleanupTargets(assigned)
           found == SeqRange(targets) \cap agents
       IN /\ agents' = CleanupMap(agents, targets)
          /\ status' = [a \in Ids |-> IF a \in found THEN "DELETED" ELSE status[a]]
          /\ hist' = [a \in Ids |-> IF a \in found THEN HistAfter(hist[a], "DELETED") ELSE hist[a]]
          /\ session_id' = [a \in Ids |-> IF a \in found THEN NoSession ELSE session_id[a]]
          /\ deletedOk' = deletedOk \cup found
          /\ lastDelete' = IF targets = <<>> THEN lastDelete
                           ELSE [id |-> targets[Len(targets)],
                                 ret |-> targets[Len(targets)] \in agents]
    /\ orchPc' = IF exPc = "returned" THEN "returned" ELSE "raised"
    /\ UNCHANGED <<nextId, hasCb, metrics, execPc, execOut, execRes, sendPc, sendOut,
                   nblocks, calls, fed>>
    /\ UNCHANGED <<mode, nsub, dependencies, assigned, agentOf, exPc, idx, subPc,
                   completed, resultOf, returned, finishOrder>>

\* The stored task once execute is over (orchestrator.py:326-349): lines
\* 332-334 update it when the executor has returned its list; the except
\* branch logs and re-raises and leaves the task as it was.
OrchTaskAfter ==
    IF exPc = "returned"
       THEN [status |-> IF \A i \in DOMAIN returned : returned[i].success
                           THEN "COMPLETED" ELSE "FAILED",
             completed_at |-> "timestamp",
             result |-> "aggregated"]
       ELSE task

(***************************************************************************)
(* SpecExec: one Orchestrator.execute call on a stored plan, in sequential *)
(* or in parallel mode                                                     *)
(***************************************************************************)
InitExec ==
    /\ SessionInit
    /\ DataIdle
    /\ mode \in {"sequential", "parallel"}
    /\ nsub \in 0..MaxSubtasks
    /\ dependencies = <<>>
    /\ assigned = <<>>
    /\ agentOf = [i \in Indices |-> 0]
    /\ exPc = "loop"
    /\ idx = 0
    /\ subPc = [i \in Indices |-> "pending"]
    /\ completed = {}
    /\ resultOf = [i \in Indices |-> NoResult]
    /\ returned = <<>>
    /\ orchPc = "executing"
    /\ finishOrder = <<>>

NextExec ==
    \/ SeqCreate /\ UNCHANGED dataVars
    \/ SeqCreateRaises /\ UNCHANGED dataVars
    \/ SeqStart /\ UNCHANGED dataVars
    \/ SeqStartRaises /\ UNCHANGED dataVars
    \/ SeqCollect /\ UNCHANGED dataVars
    \/ SeqReturn /\ UNCHANGED dataVars
    \/ ParCreate /\ UNCHANGED dataVars
    \/ ParCreateRaises /\ UNCHANGED dataVars
    \/ ParGather /\ UNCHANGED dataVars
    \/ \E i \in Indices : ParStart(i) /\ UNCHANGED dataVars
    \/ \E i \in Indices : ParStartRaises(i) /\ UNCHANGED dataVars
    \/ ParProcess /\ UNCHANGED dataVars
    \/ \E a \in Ids, k \in StreamKinds : PlanExecBlock(a, k) /\ UNCHANGED dataVars
    \/ \E a \in Ids : PlanExecStreamEnd(a) /\ UNCHANGED dataVars
    \/ \E a \in Ids : PlanExecStreamRaise(a) /\ UNCHANGED dataVars
    \/ \E a \in Ids : PlanExecCallbackRaise(a) /\ UNCHANGED dataVars
    \/ \E a \in Ids : PlanExecFailedCallbackRaise(a) /\ UNCHANGED dataVars
    \/ /\ OrchFinish
       /\ task' = OrchTaskAfter
       /\ UNCHANGED <<subMetrics, subPhase, subResults, aggregated, delivered, toolVars,
                      ctxVars, extraVars>>

SpecExec == InitExec /\ [][NextExec]_vars

(***************************************************************************)
(* WorkflowExecutor.execute_with_dependencies (executor.py:853-928)        *)
(***************************************************************************)
\* while not all(d in completed for d in deps): await asyncio.sleep(0.1)
\* The loop is left once every prerequisite index of subtask i is in done.
DepsReady_noWait(i, done) == TRUE

DepsReady(i, done) == \A d \in dependencies[i] : d \in done

\* completed.add(index), line 904.
CompletedAfter(done, i) == done \cup {i}

\* gather starts one execute_subtask coroutine per index (lines 920-925).
DepLaunch ==
    /\ mode = "dependencies"
    /\ exPc = "loop"
    /\ exPc' = "gather"
    /\ subPc' = [i \in Indices |-> "waiting"]
    /\ UNCHANGED sessionVars
    /\ UNCHANGED <<mode, nsub, dependencies, assigned, agentOf, idx, completed,
                   resultOf, returned, orchPc, finishOrder>>

\* The wait loop of execute_subtask(i) is left, the agent is created and
\* appended to task.assigned_agents (lines 876-893).  No progress callback is
\* attached in this mode.
DepCreate(i) ==
    /\ mode = "dependencies"
    /\ exPc \in {"gather", "raised"}
    /\ subPc[i] = "waiting"
    /\ DepsReady(i, completed)
    /\ CreateForSubtask(i, FALSE)
    /\ subPc' = [subPc EXCEPT ![i] = "created"]
    /\ UNCHANGED <<execPc, execOut, execRes, sendPc, sendOut, nblocks, calls, fed,
                   deletedOk, lastDelete>>
    /\ UNCHANGED <<mode, nsub, dependencies, exPc, idx, completed, resultOf, returned,
                   orchPc, finishOrder>>

\* The creation of line 887 raises.  gather (line 925, without
\* return_exceptions) hands the first exception to the caller of
\* execute_with_dependencies; the other execute_subtask coroutines are not
\* cancelled and keep running.
DepCreateRaises(i) ==
    /\ mode = "dependencies"
    /\ exPc \in {"gather", "raised"}
    /\ subPc[i] = "waiting"
    /\ DepsReady(i, completed)
    /\ \E registered \in BOOLEAN :
          IF registered
             THEN NewAgent(nextId + 1, FALSE)
             ELSE UNCHANGED <<agents, nextId, status, hist, session_id, hasCb, metrics>>
    /\ subPc' = [subPc EXCEPT ![i] = "raised"]
    /\ exPc' = "raised"
    /\ UNCHANGED <<execPc, execOut, execRes, sendPc, sendOut, nblocks, calls, fed,
                   deletedOk, lastDelete>>
    /\ UNCHANGED <<mode, nsub, dependencies, assigned, agentOf, idx, completed,
                   resultOf, returned, orchPc, finishOrder>>

\* Line 902 up to the first read of the stream.
DepStart(i) ==
    /\ mode = "dependencies"
    /\ subPc[i] = "created"
    /\ ExecBegin(agentOf[i])
    /\ subPc' = [subPc EXCEPT ![i] = "running"]
    /\ UNCHANGED <<agents, nextId, session_id, hasCb, metrics, sendPc, sendOut, calls,
                   fed, deletedOk, lastDelete>>
    /\ UNCHANGED <<mode, nsub, dependencies, assigned, agentOf, exPc, idx, completed,
                   resultOf, returned, orchPc, finishOrder>>

\* The stream of a session ends or raises while execute_subtask awaits
\* execute_task; the except branch of execute_task turns a stream error into
\* a failed TaskResult.
DepExecStreamEnd(a) == ExecStreamEnd(a) /\ UNCHANGED planVars

DepExecStreamRaise(a) == ExecStreamRaise(a) /\ UNCHANGED planVars

\* Lines 903-917: execute_task has returned; results[index] = result and
\* completed.add(index).
DepRecord(i) ==
    /\ mode = "dependencies"
    /\ subPc[i] = "running"
    /\ execPc[agentOf[i]] = "done"
    /\ resultOf' = [resultOf EXCEPT ![i] = execRes[agentOf[i]]]
    /\ completed' = CompletedAfter(completed, i)
    /\ subPc' = [subPc EXCEPT ![i] = "finished"]
    /\ UNCHANGED sessionVars
    /\ UNCHANGED <<mode, nsub, dependencies, assigned, agentOf, exPc, idx, returned,
                   orchPc, finishOrder>>

\* gather is done; return [results[i] for i in range(len(task.subtasks))].
DepReturn ==
    /\ mode = "dependencies"
    /\ exPc = "gather"
    /\ \A i \in Indices : subPc[i] = "finished"
    /\ returned' = [i \in Indices |-> resultOf[i]]
    /\ exPc' = "returned"
    /\ UNCHANGED sessionVars
    /\ UNCHANGED <<mode, nsub, dependencies, assigned, agentOf, idx, subPc, completed,
                   resultOf, orchPc, finishOrder>>

(***************************************************************************)
(* SpecDep: one execute_with_dependencies call.  The dependency map is an  *)
(* input: any map from the subtask indices to sets of subtask indices.     *)
(***************************************************************************)
InitDep ==
    /\ SessionInit
    /\ DataIdle
    /\ mode = "dependencies"
    /\ nsub \in 1..MaxSubtasks
    /\ dependencies \in [Indices -> SUBSET Indices]
    /\ assigned = <<>>
    /\ agentOf = [i \in Indices |-> 0]
    /\ exPc = "loop"
    /\ idx = 0
    /\ subPc = [i \in Indices |-> "pending"]
    /\ completed = {}
    /\ resultOf = [i \in Indices |-> NoResult]
    /\ returned = <<>>
    /\ orchPc = "idle"
    /\ finishOrder = <<>>

NextDep ==
    \/ DepLaunch /\ UNCHANGED dataVars
    \/ \E i \in Indices : DepCreate(i) /\ UNCHANGED dataVars
    \/ \E i \in Indices : DepCreateRaises(i) /\ UNCHANGED dataVars
    \/ \E i \in Indices : DepStart(i) /\ UNCHANGED dataVars
    \/ \E a \in Ids, k \in StreamKinds : PlanExecBlock(a, k) /\ UNCHANGED dataVars
    \/ \E a \in Ids : DepExecStreamEnd(a) /\ UNCHANGED dataVars
    \/ \E a \in Ids : DepExecStreamRaise(a) /\ UNCHANGED dataVars
    \/ \E i \in Indices : DepRecord(i) /\ UNCHANGED dataVars
    \/ DepReturn /\ UNCHANGED dataVars

SpecDep == InitDep /\ [][NextDep]_vars

\* The event loop runs every coroutine that is ready, and every SDK stream
\* ends or fails after finitely many messages.
SpecDepFair == SpecDep /\ WF_vars(NextDep)

(***************************************************************************)
(* The metrics a session gathers from its stream (agent.py:211-261) and    *)
(* Orchestrator._aggregate_results (orchestrator.py:397-450)               *)
(***************************************************************************)
\* The four token counters of AgentMetrics (types.py:48-52).
Counters == {"input_tokens", "output_tokens", "cache_creation_input_tokens",
             "cache_read_input_tokens"}

\* The usage dict of a ResultMessage, given by the set of counters it holds
\* (each with the value 1).  The empty set stands for a message whose usage
\* is missing, None or empty: all three fail the test of line 214.
UsageShapes == SUBSET Counters

\* total_cost_usd of a ResultMessage, in units of the smallest amount.
Costs == {1}

\* Seconds an execute_task call took (time.time() - start_time).
Durations == {1}

\* The same where a session is called more than once: calls differ in length.
CallSeconds == {1, 2}

\* AgentMetrics(agent_id=...) with every field the aggregation reads.
SessionMetrics ==
    [input_tokens |-> 0, output_tokens |-> 0, cache_creation_input_tokens |-> 0,
     cache_read_input_tokens |-> 0, total_tokens |-> 0, total_cost |-> 0,
     tool_calls |-> 0, messages_sent |-> 0, execution_time_seconds |-> 0,
     files_read |-> <<>>, files_written |-> <<>>]

\* Lines 229-235: the total is computed from the four counters.
TotalTokens_withoutCache(m) == m.input_tokens + m.output_tokens

TotalTokens(m) ==
    m.input_tokens + m.output_tokens + m.cache_creation_input_tokens
        + m.cache_read_input_tokens

\* Agent._update_metrics_from_result (agent.py:211-241).
UpdateMetricsFromResult(m, usage, cost) ==
    LET add(c) == IF c \in usage THEN 1 ELSE 0
        counted == [m EXCEPT !.input_tokens = @ + add("input_tokens"),
                             !.output_tokens = @ + add("output_tokens"),
                             !.cache_creation_input_tokens = @ + add("cache_creation_input_tokens"),
                             !.cache_read_input_tokens = @ + add("cache_read_input_tokens")]
    IN [counted EXCEPT !.total_tokens = TotalTokens(counted),
                       !.total_cost = @ + cost]

\* A TaskResult with its artifacts list.  execute_task passes
\* artifacts=self.metrics.files_written on success (line 148), and the
\* TaskResult constructor copies the list; a failed result keeps the default.
SessionResult(a, ok, out, err, arts) ==
    [kind |-> "TaskResult", agent_id |-> a, success |-> ok, output |-> out,
     error |-> err, artifacts |-> arts]

\* The ghost of a session before any tool block.
NoToolGhost ==
    [answered |-> {}, filled |-> {}, tracked |-> 0, content |-> "None", is_error |-> FALSE]

\* The sessions of the plan run one after the other, as execute_sequential
\* runs them; the data a session gathers does not depend on its siblings.
UsageStart(i) ==
    /\ subPhase[i] = "new"
    /\ \A j \in 1..(i - 1) : subPhase[j] = "done"
    /\ subPhase' = [subPhase EXCEPT ![i] = "running"]
    /\ UNCHANGED <<subMetrics, subResults, aggregated, task, delivered>>

\* The session of subtask i receives a ResultMessage, in an execute_task or
\* in a send_message turn (agent.py:127-129 and 202-203).
UsageResultMessage(i, usage, cost) ==
    /\ subPhase[i] = "running"
    /\ delivered < MaxMessages
    /\ delivered' = delivered + 1
    /\ subMetrics' = [subMetrics EXCEPT ![i] = UpdateMetricsFromResult(@, usage, cost)]
    /\ UNCHANGED <<subPhase, subResults, aggregated, task>>

\* The session receives a ToolUseBlock of a tool that touches no file
\* (agent.py:243-249).
UsageToolUse(i) ==
    /\ subPhase[i] = "running"
    /\ delivered < MaxMessages
    /\ delivered' = delivered + 1
    /\ subMetrics' = [subMetrics EXCEPT ![i].tool_calls = @ + 1]
    /\ UNCHANGED <<subPhase, subResults, aggregated, task>>

\* execute_task ends: lines 134-149 with the text gathered (out TextBlocks),
\* or lines 151-166 after an exception.
UsageFinish(i, ok, out, secs) ==
    /\ subPhase[i] = "running"
    /\ subMetrics' = [subMetrics EXCEPT
                        ![i].messages_sent = IF ok THEN @ + 1 ELSE @,
                        ![i].execution_time_seconds = secs]
    /\ subResults' = Append(subResults,
                            IF ok THEN SessionResult(i, TRUE, out, NoError,
                                                     subMetrics[i].files_written)
                                  ELSE SessionResult(i, FALSE, NoneOutput, "stream error", <<>>))
    /\ subPhase' = [subPhase EXCEPT ![i] = "done"]
    /\ UNCHANGED <<aggregated, task, delivered>>

\* The metrics object of a TaskResult is the session's own (metrics=self.metrics).
MetricsOf(r) == subMetrics[r.agent_id]

\* One pass of the else branch of the aggregation loop (lines 427-437).
AddMetrics_withoutToolCalls(total, m) ==
    [total EXCEPT !.total_tokens = @ + m.total_tokens,
                  !.input_tokens = @ + m.input_tokens,
                  !.output_tokens = @ + m.output_tokens,
                  !.cache_creation_input_tokens = @ + m.cache_creation_input_tokens,
                  !.cache_read_input_tokens = @ + m.cache_read_input_tokens,
                  !.total_cost = @ + m.total_cost,
                  !.messages_sent = @ + m.messages_sent,
                  !.files_read = @ \o m.files_read,
                  !.files_written = @ \o m.files_written,
                  !.execution_time_seconds = @ + m.execution_time_seconds]

AddMetrics(total, m) ==
    [total EXCEPT !.total_tokens = @ + m.total_tokens,
                  !.input_tokens = @ + m.input_tokens,
                  !.output_tokens = @ + m.output_tokens,
                  !.cache_creation_input_tokens = @ + m.cache_creation_input_tokens,
                  !.cache_read_input_tokens = @ + m.cache_read_input_tokens,
                  !.total_cost = @ + m.total_cost,
                  !.tool_calls = @ + m.tool_calls,
                  !.messages_sent = @ + m.messages_sent,
                  !.files_read = @ \o m.files_read,
                  !.files_written = @ \o m.files_written,
                  !.execution_time_seconds = @ + m.execution_time_seconds]

\* total_metrics after the loop has handled results[k..]: the first result is
\* copied (model_copy), every later one is added.
RECURSIVE AccumulateMetrics(_, _, _)
AccumulateMetrics(total, results, k) ==
    IF k > Len(results) THEN total
    ELSE AccumulateMetrics(AddMetrics(total, MetricsOf(results[k])), results, k + 1)

AggregateMetrics(results) ==
    IF results = <<>> THEN SessionMetrics
    ELSE AccumulateMetrics(MetricsOf(results[1]), results, 2)

\* all_success (lines 412-416).
AllSuccess_lastOnly(results) == results = <<>> \/ results[Len(results)].success

AllSuccess(results) == \A k \in 1..Len(results) : results[k].success

\* if result.output: a None output and an empty text are skipped (line 418).
HasOutput(r) == r.output # NoneOutput /\ r.output > 0

\* outputs (lines 418-419): the entries "[agent_id]: output", later joined
\* by blank lines; each entry is kept as the pair of its two parts.
RECURSIVE AggregateOutput(_)
AggregateOutput(results) ==
    IF results = <<>> THEN <<>>
    ELSE (IF HasOutput(Head(results))
             THEN << <<Head(results).agent_id, Head(results).output>> >>
             ELSE <<>>) \o AggregateOutput(Tail(results))

\* all_artifacts (line 421): the artifacts of the results, one after another.
RECURSIVE AllArtifacts(_)
AllArtifacts(results) ==
    IF results = <<>> THEN <<>>
    ELSE Head(results).artifacts \o AllArtifacts(Tail(results))

\* list(set(all_artifacts)) (line 449): every element once, in the order the
\* set iterates, which is no order the code controls.
ArtifactLists(results) ==
    LET S == SeqRange(AllArtifacts(results))
    IN {q \in [1..Cardinality(S) -> S] : \A a, b \in 1..Cardinality(S) : a # b => q[a] # q[b]}

\* Orchestrator._aggregate_results: the TaskResult of lines 443-450, with
\* artifacts one of ArtifactLists(results).  The constructor call passes no
\* error, so the field keeps its default None.
AggregateResults(results, artifacts) ==
    [kind |-> "TaskResult", agent_id |-> "orchestrator",
     success |-> AllSuccess(results),
     output |-> AggregateOutput(results),
     error |-> NoError,
     metrics |-> AggregateMetrics(results),
     artifacts |-> artifacts]

\* model_copy() of line 425 is a shallow copy: the lists files_read and
\* files_written of total_metrics are the list objects of the first result's
\* metrics, and extend (lines 435-436) grows them in place.
MetricsAfterAggregation(results) ==
    IF results = <<>> THEN subMetrics
    ELSE [subMetrics EXCEPT
            ![results[1].agent_id].files_read = AggregateMetrics(results).files_read,
            ![results[1].agent_id].files_written = AggregateMetrics(results).files_written]

\* Orchestrator.execute, lines 326-341: the executor has returned the list;
\* the results are aggregated, the stored task is updated and the aggregated
\* result is returned.
OrchAggregate ==
    /\ aggregated.kind = "None"
    /\ Len(subResults) = nsub
    /\ \E artifacts \in ArtifactLists(subResults) :
          aggregated' = AggregateResults(subResults, artifacts)
    /\ subMetrics' = MetricsAfterAggregation(subResults)
    /\ task' = [status |-> IF AllSuccess(subResults) THEN "COMPLETED" ELSE "FAILED",
                completed_at |-> "timestamp",
                result |-> "aggregated"]
    /\ UNCHANGED <<subPhase, subResults, delivered>>

(***************************************************************************)
(* SpecUsage: the data of one Orchestrator.execute call: the sessions of a *)
(* plan gather their metrics, return their TaskResults, and execute        *)
(* aggregates them                                                         *)
(***************************************************************************)
DataInit ==
    /\ subMetrics = [i \in Indices |-> SessionMetrics]
    /\ subPhase = [i \in Indices |-> "new"]
    /\ subResults = <<>>
    /\ aggregated = [kind |-> "None"]
    /\ task = [status |-> "CREATED", completed_at |-> "None", result |-> "None"]
    /\ delivered = 0
    /\ tool_calls = [i \in Indices |-> <<>>]
    /\ toolUses = [i \in Indices |-> <<>>]
    /\ toolGhost = [i \in Indices |-> NoToolGhost]
    /\ ContextIdle
    /\ ExtraIdle

PlanData ==
    /\ mode = "data"
    /\ nsub \in 0..MaxSubtasks
    /\ dependencies = <<>>
    /\ assigned = <<>>
    /\ agentOf = <<>>
    /\ exPc = "idle"
    /\ idx = 0
    /\ subPc = <<>>
    /\ completed = {}
    /\ resultOf = <<>>
    /\ returned = <<>>
    /\ orchPc = "executing"
    /\ finishOrder = <<>>

InitUsage == SessionInit /\ PlanData /\ DataInit

NextUsage ==
    \/ \E i \in Indices : UsageStart(i) /\ UNCHANGED <<sessionVars, planVars, toolVars, ctxVars, extraVars>>
    \/ \E i \in Indices, usage \in UsageShapes, cost \in Costs :
          UsageResultMessage(i, usage, cost) /\ UNCHANGED <<sessionVars, planVars, toolVars, ctxVars, extraVars>>
    \/ \E i \in Indices : UsageToolUse(i) /\ UNCHANGED <<sessionVars, planVars, toolVars, ctxVars, extraVars>>
    \/ \E i \in Indices, ok \in BOOLEAN, out \in 0..1, secs \in Durations :
          UsageFinish(i, ok, out, secs) /\ UNCHANGED <<sessionVars, planVars, toolVars, ctxVars, extraVars>>
    \/ OrchAggregate /\ UNCHANGED <<sessionVars, planVars, toolVars, ctxVars, extraVars>>

SpecUsage == InitUsage /\ [][NextUsage]_vars

(***************************************************************************)
(* Tool tracking of a session: Agent._track_tool_use (agent.py:243-261)    *)
(* and Agent._track_tool_result (agent.py:263-278)                         *)
(***************************************************************************)
\* ToolUseBlock.name: the three tools whose file_path is tracked, and one other.
ToolNames == {"Read", "Write", "Edit", "Bash"}

\* tool_block.input.get("file_path"): a path, or None when the key is absent.
NoPath == "None"

Paths == {"/a", "/b"}

\* ToolCall.result before any result (types.py:38).
NoToolResult == "None"

\* ToolResultBlock.content: an empty content and a non-empty one.
Contents == {"", "out"}

\* The message variant whose content list carries a ToolResultBlock.
Carriers == {"AssistantMessage", "UserMessage"}

\* Python truth of a value of the model: None and the empty string are false.
Truthy(v) == v \notin {"None", ""}

\* ToolCall(tool_name=..., arguments=...) with its defaults (types.py:33-41).
ToolCall(name, path) ==
    [tool_name |-> name, file_path |-> path, result |-> NoToolResult,
     success |-> TRUE, error |-> NoError]

\* if file_path and file_path not in list: list.append(file_path)
\* (lines 255-256 and 260-261).
AppendNew(list, path) ==
    IF Truthy(path) /\ path \notin SeqRange(list) THEN Append(list, path) ELSE list

\* The metrics after _track_tool_use (lines 250-261).
TrackToolUseMetrics(m, name, path) ==
    [m EXCEPT !.tool_calls = @ + 1,
              !.files_read = IF name = "Read" THEN AppendNew(@, path) ELSE @,
              !.files_written = IF name \in {"Write", "Edit"} THEN AppendNew(@, path) ELSE @]

\* The calls the loop of line 272 stops at: tc.tool_name and not tc.result.
Unresolved(tcs) ==
    {k \in 1..Len(tcs) : Truthy(tcs[k].tool_name) /\ ~Truthy(tcs[k].result)}

MaxOf(S) == CHOOSE k \in S : \A j \in S : j <= k

\* Agent.tool_calls after _track_tool_result (lines 272-278): reversed() visits
\* the latest call first, and the loop breaks at the first call it fills.
\* The contents of the model are strings, which str() (line 277) leaves as
\* they are.
TrackToolResult(tcs, content, is_error) ==
    IF Unresolved(tcs) = {} THEN tcs
    ELSE LET k == MaxOf(Unresolved(tcs))
         IN [tcs EXCEPT ![k].result = content,
                          ![k].success = ~is_error,
                          ![k].error = IF is_error THEN content ELSE @]

\* An AssistantMessage carries a ToolUseBlock (execute_task lines 118-120,
\* send_message lines 197-198).  The ghosts note the block.
ToolUseBlock(i, name, path) ==
    /\ subPhase[i] = "running"
    /\ delivered < MaxToolBlocks
    /\ delivered' = delivered + 1
    /\ tool_calls' = [tool_calls EXCEPT ![i] = Append(@, ToolCall(name, path))]
    /\ subMetrics' = [subMetrics EXCEPT ![i] = TrackToolUseMetrics(@, name, path)]
    /\ toolUses' = [toolUses EXCEPT ![i] = Append(@, [name |-> name, path |-> path])]
    /\ UNCHANGED <<toolGhost, subPhase, subResults, aggregated, task>>

\* The most recent call outside the set done, if there is one, joins it.
Answer(done, n) ==
    IF (1..n) \ done = {} THEN done ELSE done \cup {MaxOf((1..n) \ done)}

\* A message carries a ToolResultBlock.  Only the content of an
\* AssistantMessage is scanned for blocks (lines 110 and 193): a block that
\* a UserMessage carries is logged (line 108) and nothing else.  Ghosts:
\* answered is the set of calls whose result the stream has delivered, filled
\* the set of calls a _track_tool_result call was due to fill, tracked the
\* number of _track_tool_result calls, content and is_error the block of the
\* last such call.
ToolResultBlock(i, content, is_error, carrier) ==
    /\ subPhase[i] = "running"
    /\ delivered < MaxToolBlocks
    /\ delivered' = delivered + 1
    /\ tool_calls' = [tool_calls EXCEPT ![i] =
                         IF carrier = "AssistantMessage"
                            THEN TrackToolResult(@, content, is_error) ELSE @]
    /\ toolGhost' = [toolGhost EXCEPT ![i] =
                        IF carrier = "AssistantMessage"
                           THEN [answered |-> Answer(@.answered, Len(tool_calls[i])),
                                 filled |-> Answer(@.filled, Len(tool_calls[i])),
                                 tracked |-> @.tracked + 1,
                                 content |-> content,
                                 is_error |-> is_error]
                           ELSE [@ EXCEPT !.answered = Answer(@, Len(tool_calls[i]))]]
    /\ UNCHANGED <<toolUses, subMetrics, subPhase, subResults, aggregated, task>>

(***************************************************************************)
(* SpecTools: one session consumes a stream of tool blocks in an           *)
(* execute_task call                                                       *)
(***************************************************************************)
PlanTools == PlanData /\ nsub = 1

InitTools == SessionInit /\ PlanTools /\ DataInit

NextTools ==
    \/ \E i \in Indices : UsageStart(i) /\ UNCHANGED <<sessionVars, planVars, toolVars, ctxVars, extraVars>>
    \/ \E i \in Indices, name \in ToolNames, path \in Paths \cup {NoPath} :
          ToolUseBlock(i, name, path) /\ UNCHANGED <<sessionVars, planVars, ctxVars, extraVars>>
    \/ \E i \in Indices, content \in Contents, is_error \in BOOLEAN, carrier \in Carriers :
          ToolResultBlock(i, content, is_error, carrier) /\ UNCHANGED <<sessionVars, planVars, ctxVars, extraVars>>
    \/ \E i \in Indices, ok \in BOOLEAN, out \in 0..1, secs \in Durations :
          UsageFinish(i, ok, out, secs) /\ UNCHANGED <<sessionVars, planVars, toolVars, ctxVars, extraVars>>

SpecTools == InitTools /\ [][NextTools]_vars

(***************************************************************************)
(* SpecFiles: the sessions of a plan use file tools, return their          *)
(* TaskResults, and Orchestrator.execute aggregates them                   *)
(***************************************************************************)
NextFiles ==
    \/ \E i \in Indices : UsageStart(i) /\ UNCHANGED <<sessionVars, planVars, toolVars, ctxVars, extraVars>>
    \/ \E i \in Indices, name \in ToolNames, path \in Paths \cup {NoPath} :
          ToolUseBlock(i, name, path) /\ UNCHANGED <<sessionVars, planVars, ctxVars, extraVars>>
    \/ \E i \in Indices, ok \in BOOLEAN, secs \in Durations :
          UsageFinish(i, ok, 1, secs) /\ UNCHANGED <<sessionVars, planVars, toolVars, ctxVars, extraVars>>
    \/ OrchAggregate /\ UNCHANGED <<sessionVars, planVars, toolVars, ctxVars, extraVars>>

SpecFiles == InitUsage /\ [][NextFiles]_vars

(***************************************************************************)
(* Context passing between the agents of execute_sequential:               *)
(* extract_structured_output and AgentContext.get_forward_context          *)
(* (context_parser.py) and the prompt of the next agent (executor.py)      *)
(***************************************************************************)
\* An output is a sequence of lines; the text is the lines joined by "\n".
\* Heading lines an agent may write: the five sections the parser looks for,
\* and one section of another name.
HeadingLines ==
    {"## Summary", "## Files Created", "## Files Modified", "## Key Findings",
     "## Recommendations for Next Agent", "## Notes"}

\* Free text, which the parser gives no meaning to.
FreeText == {"alpha", "beta"}

\* Lines that are no heading: free text, a bullet, a pytest count and one of
\* the indicators of _has_review_issues.
TextLines == FreeText \cup {"- item", "2 failed", "issues found"}

\* A line that starts with "##": where the lookahead (?=\n##|\Z) stops.
IsHeading(line) == line \in HeadingLines

\* The headings each of the five regular expressions accepts (lines 132-163).
SummaryNames == {"## Summary"}

FilesCreatedNames ==
    {"## Files Created", "## Documentation Files Created", "## Test Files Created"}

FilesModifiedNames == {"## Files Modified"}

KeyFindingsNames == {"## Key Findings"}

RecommendationsNames == {"## Recommendations for Next Agent", "## For Next Agent"}

MinOf(S) == CHOOSE k \in S : \A j \in S : k <= j

\* group(1) of re.search(r'## NAME\s*\n(.*?)(?=\n##|\Z)', out, re.DOTALL):
\* the leftmost heading line of the names that has a line after it; the
\* capture starts on the next line, whatever that line is, and runs lazily
\* to the first line end that is followed by "\n##" or by the end of the
\* text.  No match gives no lines.
Capture(out, names) ==
    LET starts == {i \in 1..(Len(out) - 1) : out[i] \in names}
    IN IF starts = {} THEN <<>>
       ELSE LET i == MinOf(starts)
                j == MinOf({k \in (i + 1)..Len(out) :
                               k = Len(out) \/ IsHeading(out[k + 1])})
            IN SubSeq(out, i + 1, j)

\* _extract_file_list and _extract_bullet_list (lines 182-203): the lines
\* that start with "- "; an item is kept as its bullet line.
IsBullet(line) == line = "- item"

BulletList(lines) == SelectSeq(lines, IsBullet)

NoContext == [kind |-> "None"]

\* _extract_test_results (lines 206-224), as far as requires_fix reads it:
\* the count of the first "N failed", or None when nothing matched.
ExtractTestResults(out) ==
    IF \E k \in 1..Len(out) : out[k] = "2 failed"
       THEN [kind |-> "dict", failed |-> 2] ELSE NoContext

\* _has_test_failures (lines 227-231).
HasTestFailures(results) == results.kind = "dict" /\ results.failed > 0

\* _has_review_issues (lines 252-264).
HasReviewIssues(out) == \E k \in 1..Len(out) : out[k] = "issues found"

\* subtask["role"]: members of AgentRole, and .value, the lower-case string
\* of the member (types.py:20-30).
Roles == {"TESTER", "REVIEWER", "BUILDER"}

RoleValue(role) ==
    CASE role = "TESTER" -> "tester"
      [] role = "REVIEWER" -> "reviewer"
      [] role = "BUILDER" -> "builder"

\* extract_structured_output(agent_output, agent_role) (lines 115-179).
\* strip() leaves the lines of the model as they are.
ExtractStructuredOutput(out, agent_role) ==
    [kind |-> "AgentContext",
     summary |-> Capture(out, SummaryNames),
     files_created |-> BulletList(Capture(out, FilesCreatedNames)),
     files_modified |-> BulletList(Capture(out, FilesModifiedNames)),
     key_findings |-> BulletList(Capture(out, KeyFindingsNames)),
     recommendations |-> Capture(out, RecommendationsNames),
     test_results |-> IF agent_role = "TESTER" THEN ExtractTestResults(out) ELSE NoContext,
     requires_fix |-> IF agent_role = "TESTER" THEN HasTestFailures(ExtractTestResults(out))
                      ELSE IF agent_role = "REVIEWER" THEN HasReviewIssues(out)
                      ELSE FALSE]

\* One part of the forward context: a heading and the lines under it, after
\* the empty line the leading "\n" of the part makes.
Part(heading, lines) == IF lines = <<>> THEN <<>> ELSE <<"", heading>> \o lines

\* AgentContext.get_forward_context (lines 52-76), as lines.
GetForwardContext(ctx) ==
    (IF ctx.summary = <<>> THEN <<>> ELSE <<"## Previous Agent Summary">> \o ctx.summary)
    \o Part("## Files Created", ctx.files_created)
    \o Part("## Files Modified", ctx.files_modified)
    \o Part("## Key Findings", ctx.key_findings)
    \o Part("## Recommendations", ctx.recommendations)

\* subtask["description"] of the next subtask.
Description == <<"task">>

\* The task prompt of the next agent (executor.py:356-361).
BuildPrompt(prev) ==
    IF prev.kind = "None" \/ GetForwardContext(prev) = <<>> THEN Description
    ELSE Description \o <<"">> \o GetForwardContext(prev)

\* Two runs of the same plan; in both, the agent of a subtask is at work.
Runs == {1, 2}

Unset == [kind |-> "unset"]

\* The agent adds a line to its output in each run (output_text += block.text,
\* agent.py:114): the same line in both runs, or free text that may differ.
CtxEmit(a, b) ==
    /\ \A r \in Runs : previous_context[r] = Unset
    /\ Len(outputs[1]) < MaxLines
    /\ a = b \/ (a \in FreeText /\ b \in FreeText)
    /\ outputs' = [outputs EXCEPT ![1] = Append(@, a), ![2] = Append(@, b)]
    /\ UNCHANGED <<ctxRole, previous_context, agent_contexts, prompts>>

\* execute_task has returned in run r; lines 375-386 of execute_sequential.
CtxReturn(r, success) ==
    /\ previous_context[r] = Unset
    /\ IF success /\ outputs[r] # <<>>
          THEN /\ agent_contexts' = [agent_contexts EXCEPT ![r] =
                      ExtractStructuredOutput(outputs[r], RoleValue(ctxRole))]
               /\ previous_context' = [previous_context EXCEPT ![r] =
                      ExtractStructuredOutput(outputs[r], RoleValue(ctxRole))]
          ELSE /\ previous_context' = [previous_context EXCEPT ![r] = NoContext]
               /\ UNCHANGED agent_contexts
    /\ UNCHANGED <<ctxRole, outputs, prompts>>

\* The next iteration of the loop builds the prompt of the next agent.
CtxPrompt(r) ==
    /\ previous_context[r] # Unset
    /\ prompts[r] = <<>>
    /\ prompts' = [prompts EXCEPT ![r] = BuildPrompt(previous_context[r])]
    /\ UNCHANGED <<ctxRole, outputs, previous_context, agent_contexts>>

(***************************************************************************)
(* SpecContext: two runs of execute_sequential pass the context of one     *)
(* agent to the next                                                       *)
(***************************************************************************)
ContextInit ==
    /\ ctxRole \in Roles
    /\ outputs = [r \in Runs |-> <<>>]
    /\ previous_context = [r \in Runs |-> Unset]
    /\ agent_contexts = [r \in Runs |-> NoContext]
    /\ prompts = [r \in Runs |-> <<>>]

InitContext == SessionInit /\ PlanIdle /\ MetricsIdle /\ ContextInit /\ ExtraIdle

ctxRest == <<sessionVars, planVars, subMetrics, subPhase, subResults, aggregated,
             task, delivered, toolVars, extraVars>>

NextContext ==
    \/ \E a, b \in HeadingLines \cup TextLines : CtxEmit(a, b) /\ UNCHANGED ctxRest
    \/ \E r \in Runs, success \in BOOLEAN : CtxReturn(r, success) /\ UNCHANGED ctxRest
    \/ \E r \in Runs : CtxPrompt(r) /\ UNCHANGED ctxRest

SpecContext == InitContext /\ [][NextContext]_vars

(***************************************************************************)
(* Orchestrator.start / stop (orchestrator.py:84-104) and the monitoring   *)
(* loop AgentMonitor.start_monitoring (monitor.py:114-146)                 *)
(***************************************************************************)
metricVars == <<subMetrics, subPhase, subResults, aggregated, task, delivered>>

\* start(): with enable_monitoring the coroutine start_monitoring is wrapped
\* in a task (asyncio.create_task), which has not run a step when start
\* returns.  A later start() replaces monitoring_task.
OrchStart(enable_monitoring) ==
    /\ stopPc \in {"new", "returned"}
    /\ stopPc' = "started"
    /\ monitoring_task' = IF enable_monitoring THEN "scheduled" ELSE monitoring_task
    /\ UNCHANGED <<monitoring, sessionVars>>

\* First step of the task: self.monitoring = True, the while test, and the
\* task suspends in asyncio.sleep (monitor.py:126-129).
MonitorBegin ==
    /\ monitoring_task = "scheduled"
    /\ monitoring' = TRUE
    /\ monitoring_task' = "sleeping"
    /\ UNCHANGED <<stopPc, sessionVars>>

\* The interval is over: the sleeping task is ready to run again.
MonitorTick ==
    /\ monitoring_task = "sleeping"
    /\ monitoring_task' = "woken"
    /\ UNCHANGED <<monitoring, stopPc, sessionVars>>

\* The task runs the for loop over the agents (lines 131-146 change nothing
\* the sessions hold) and tests while self.monitoring again.
MonitorCheck ==
    /\ monitoring_task = "woken"
    /\ monitoring_task' = IF monitoring THEN "sleeping" ELSE "done"
    /\ UNCHANGED <<monitoring, stopPc, sessionVars>>

\* AgentManager.delete_all_agents (agent_manager.py:497-511) with no delete
\* failing: delete_agent suspends nowhere, so the loop runs in one stretch.
DeleteAllAgents ==
    /\ agents' = {}
    /\ status' = [a \in Ids |-> IF a \in agents THEN "DELETED" ELSE status[a]]
    /\ hist' = [a \in Ids |-> IF a \in agents THEN HistAfter(hist[a], "DELETED") ELSE hist[a]]
    /\ session_id' = [a \in Ids |-> IF a \in agents THEN NoSession ELSE session_id[a]]
    /\ deletedOk' = deletedOk \cup agents
    /\ UNCHANGED <<nextId, hasCb, metrics, execPc, execOut, execRes, sendPc, sendOut,
                   nblocks, calls, fed, lastDelete>>

\* stop() up to its first suspension (lines 98-100): with a monitoring task,
\* stop_monitoring() clears the flag and stop awaits the task; without one it
\* goes on to delete the agents and returns.
OrchStopBegin ==
    /\ stopPc = "started"
    /\ IF monitoring_task # "None"
          THEN /\ monitoring' = FALSE
               /\ stopPc' = IF monitoring_task = "done" THEN "resumed" ELSE "awaiting"
               /\ UNCHANGED sessionVars
          ELSE /\ DeleteAllAgents
               /\ stopPc' = "returned"
               /\ UNCHANGED monitoring
    /\ UNCHANGED monitoring_task

\* The awaited task is done: lines 101-105.
OrchStopResume ==
    /\ stopPc \in {"awaiting", "resumed"}
    /\ monitoring_task = "done"
    /\ DeleteAllAgents
    /\ stopPc' = "returned"
    /\ UNCHANGED <<monitoring, monitoring_task>>

\* create_agent while the orchestrator is in use.
StopCreateAgent ==
    /\ stopPc # "returned"
    /\ CreateAgent
    /\ UNCHANGED <<monitoring, monitoring_task, stopPc>>

\* delete_agent while the orchestrator is in use.
StopDeleteAgent(a) ==
    /\ stopPc # "returned"
    /\ DeleteAgent(a)
    /\ UNCHANGED <<monitoring, monitoring_task, stopPc>>

(***************************************************************************)
(* SpecStop: an orchestrator is started and stopped, any number of times   *)
(***************************************************************************)
stopRest == <<planVars, metricVars, toolVars, ctxVars, events, active_connections,
              bcast, received, sweep, classified, obsVars>>

NextStop ==
    \/ \E enable_monitoring \in BOOLEAN : OrchStart(enable_monitoring) /\ UNCHANGED stopRest
    \/ MonitorBegin /\ UNCHANGED stopRest
    \/ MonitorTick /\ UNCHANGED stopRest
    \/ MonitorCheck /\ UNCHANGED stopRest
    \/ OrchStopBegin /\ UNCHANGED stopRest
    \/ OrchStopResume /\ UNCHANGED stopRest
    \/ StopCreateAgent /\ UNCHANGED <<metricVars, toolVars, ctxVars, events,
                                      active_connections, bcast, received, sweep, classified, obsVars>>
    \/ \E a \in Ids : StopDeleteAgent(a) /\ UNCHANGED stopRest

SpecStop == Init /\ [][NextStop]_vars

\* The event loop runs every task that is ready, and timers fire.
SpecStopFair ==
    /\ SpecStop
    /\ WF_vars(MonitorBegin /\ UNCHANGED stopRest)
    /\ WF_vars(MonitorTick /\ UNCHANGED stopRest)
    /\ WF_vars(MonitorCheck /\ UNCHANGED stopRest)
    /\ WF_vars(OrchStopResume /\ UNCHANGED stopRest)

(***************************************************************************)
(* Progress events of Agent.execute_task (agent.py:73-78, 90-166)          *)
(***************************************************************************)
\* The blocks the stream of one call can carry (agent.py:110-132).
ProgressKinds == {"Text", "Thinking", "ToolUse", "Result"}

\* What a subscriber of the session sees while one block is processed: the
\* update of the metrics ("metric") and the callback invocation, in the
\* order of lines 113-129.
BlockEvents(k) ==
    CASE k = "Thinking" -> <<"thinking">>
      [] k = "ToolUse" -> <<"metric", "tool_call">>
      [] k = "Result" -> <<"metric">>
      [] OTHER -> <<>>

\* create_agent with a progress callback (executor.py passes one).
ProgCreateAgent ==
    /\ nextId < MaxAgents
    /\ NewAgent(nextId + 1, TRUE)
    /\ UNCHANGED <<execPc, execOut, execRes, sendPc, sendOut, nblocks, calls, fed,
                   deletedOk, lastDelete, events>>

\* Lines 90-95.  The callback is the caller's function: any invocation of it
\* may raise.  "started" is delivered before the try block is entered.
ProgExecuteTask(a, startedRaises) ==
    /\ get_agent(a) # 0
    /\ hasCb[a]
    /\ execPc[a] # "stream"
    /\ calls < MaxCalls
    /\ calls' = calls + 1
    /\ IF startedRaises THEN ExecBeginRaise(a) ELSE ExecBegin(a)
    /\ events' = [events EXCEPT ![a] = <<"started">>]
    /\ UNCHANGED <<agents, nextId, session_id, hasCb, metrics, sendPc, sendOut, fed,
                   deletedOk, lastDelete>>

\* Lines 106-132, the callbacks returning normally.
ProgBlock(a, k) ==
    /\ hasCb[a]
    /\ ExecBlock(a, k)
    /\ events' = [events EXCEPT ![a] = @ \o BlockEvents(k)]

\* The except branch (lines 151-166) with a callback: FAILED, the execution
\* time is stored in the metrics, "failed" is delivered, and the failed
\* TaskResult is returned unless that last invocation raises as well.
ProgExcept(a, err, failedRaises) ==
    /\ status' = [status EXCEPT ![a] = "FAILED"]
    /\ IF failedRaises
          THEN /\ execPc' = [execPc EXCEPT ![a] = "raised"]
               /\ execRes' = [execRes EXCEPT ![a] = ExceptionObj("callback error")]
          ELSE FailureExit(a, err)

\* The "thinking" or "tool_call" invocation raises (lines 116, 121).
ProgBlockRaise(a, k, failedRaises) ==
    /\ hasCb[a]
    /\ execPc[a] = "stream"
    /\ nblocks[a].e < MaxBlocks
    /\ k \in {"Thinking", "ToolUse"}
    /\ nblocks' = [nblocks EXCEPT ![a].e = @ + 1]
    /\ metrics' = [metrics EXCEPT ![a] = MetricsAfterBlock(@, k)]
    /\ fed' = [fed EXCEPT ![a] = FeedAfterBlock(@, k)]
    /\ hist' = [hist EXCEPT ![a] = HistAfter(@, "FAILED")]
    /\ ProgExcept(a, "callback error", failedRaises)
    /\ events' = [events EXCEPT ![a] = @ \o BlockEvents(k) \o <<"metric", "failed">>]
    /\ UNCHANGED <<agents, nextId, session_id, hasCb, execOut, sendPc, sendOut,
                   calls, deletedOk, lastDelete>>

\* A read of the stream raises.
ProgStreamRaise(a, failedRaises) ==
    /\ hasCb[a]
    /\ execPc[a] = "stream"
    /\ hist' = [hist EXCEPT ![a] = HistAfter(@, "FAILED")]
    /\ ProgExcept(a, "stream error", failedRaises)
    /\ events' = [events EXCEPT ![a] = @ \o <<"metric", "failed">>]
    /\ UNCHANGED <<agents, nextId, session_id, hasCb, metrics, execOut, sendPc, sendOut,
                   nblocks, calls, fed, deletedOk, lastDelete>>

\* The stream is exhausted and every callback returns (lines 134-149).
ProgStreamEnd(a) ==
    /\ hasCb[a]
    /\ ExecStreamEnd(a)
    /\ events' = [events EXCEPT ![a] = @ \o <<"metric", "completed">>]

\* The stream is exhausted, lines 134-137 run, and the "completed"
\* invocation (line 140) raises inside the try block.
ProgCompletedRaise(a, failedRaises) ==
    /\ hasCb[a]
    /\ execPc[a] = "stream"
    /\ metrics' = [metrics EXCEPT ![a].messages_sent = @ + 1]
    /\ hist' = [hist EXCEPT ![a] = HistAfter(HistAfter(@, "COMPLETED"), "FAILED")]
    /\ ProgExcept(a, "callback error", failedRaises)
    /\ events' = [events EXCEPT ![a] = @ \o <<"metric", "completed", "metric", "failed">>]
    /\ UNCHANGED <<agents, nextId, session_id, hasCb, execOut, sendPc, sendOut,
                   nblocks, calls, fed, deletedOk, lastDelete>>

(***************************************************************************)
(* SpecProgress: sessions with a progress callback run execute_task        *)
(***************************************************************************)
progRest == <<planVars, metricVars, toolVars, ctxVars, monitoring, monitoring_task, stopPc,
              active_connections, bcast, received, sweep, classified, obsVars>>

NextProgress ==
    \/ ProgCreateAgent /\ UNCHANGED progRest
    \/ \E a \in Ids, startedRaises \in BOOLEAN : ProgExecuteTask(a, startedRaises) /\ UNCHANGED progRest
    \/ \E a \in Ids, k \in ProgressKinds : ProgBlock(a, k) /\ UNCHANGED progRest
    \/ \E a \in Ids, k \in ProgressKinds, failedRaises \in BOOLEAN :
          ProgBlockRaise(a, k, failedRaises) /\ UNCHANGED progRest
    \/ \E a \in Ids, failedRaises \in BOOLEAN : ProgStreamRaise(a, failedRaises) /\ UNCHANGED progRest
    \/ \E a \in Ids : ProgStreamEnd(a) /\ UNCHANGED progRest
    \/ \E a \in Ids, failedRaises \in BOOLEAN : ProgCompletedRaise(a, failedRaises) /\ UNCHANGED progRest

SpecProgress == Init /\ [][NextProgress]_vars

(***************************************************************************)
(* ConnectionManager of the dashboard (websocket.py:24-83, 90-124)         *)
(***************************************************************************)
\* websocket_endpoint -> manager.connect (lines 30-34, 109): a WebSocket
\* object is accepted and registered once.
WsConnect(c) ==
    /\ received[c].state = "new"
    /\ active_connections' = active_connections \cup {c}
    /\ received' = [received EXCEPT ![c].state = "open"]
    /\ UNCHANGED bcast

\* The endpoint of client c sees WebSocketDisconnect (or another exception)
\* and calls manager.disconnect (lines 36-39, 121-125): set.discard.
WsDisconnect(c) ==
    /\ received[c].state = "open"
    /\ active_connections' = active_connections \ {c}
    /\ received' = [received EXCEPT ![c].state = "closed"]
    /\ UNCHANGED bcast

\* `for connection in self.active_connections` asks the set iterator for its
\* next element (line 74).  The iterator raises RuntimeError when the size of
\* the set differs from the size at the start of the loop; the for statement
\* is outside the try of lines 75-79, so the error leaves _broadcast.  The
\* order of a set is arbitrary; an element added during the loop may or may
\* not be visited.  When the loop ends, lines 82-83 discard the failed
\* connections.
BroadcastNext(b, conns) ==
    IF Cardinality(conns) # b.size
       THEN {[b EXCEPT !.pc = "raised", !.cur = 0]}
       ELSE {[b EXCEPT !.pc = "sending", !.cur = c, !.visited = @ \cup {c}] :
                c \in conns \ b.visited}
            \cup (IF (b.start \cap conns) \ b.visited = {}
                     THEN {[b EXCEPT !.pc = "returned", !.cur = 0]}
                     ELSE {})

AfterBroadcast(b, conns) == IF b.pc = "returned" THEN conns \ b.disconnected ELSE conns

\* _broadcast(message) up to the first await of send_text (lines 68-76).
BroadcastBegin ==
    /\ bcast.pc # "sending"
    /\ bcast.n < MaxPublications
    /\ IF active_connections = {}
          THEN bcast' = [NoBroadcast EXCEPT !.pc = "returned", !.n = bcast.n + 1]
          ELSE bcast' \in BroadcastNext([NoBroadcast EXCEPT !.n = bcast.n + 1,
                                                         !.start = active_connections,
                                                         !.size = Cardinality(active_connections)],
                                        active_connections)
    /\ UNCHANGED <<active_connections, received>>

\* The awaited send_text is over: it returned (the client has the message)
\* or raised (lines 77-79); then the loop goes on to the next connection.
BroadcastSendOver(ok) ==
    /\ bcast.pc = "sending"
    /\ ok => received[bcast.cur].state = "open"
    /\ received' = IF ok THEN [received EXCEPT ![bcast.cur].log = Append(@, bcast.n)]
                         ELSE received
    /\ \E b \in BroadcastNext(IF ok THEN bcast
                                    ELSE [bcast EXCEPT !.disconnected = @ \cup {bcast.cur}],
                              active_connections) :
          /\ bcast' = b
          /\ active_connections' = AfterBroadcast(b, active_connections)

(***************************************************************************)
(* SpecBroadcast: clients come and go while messages are published         *)
(***************************************************************************)
bcastRest == <<sessionVars, planVars, metricVars, toolVars, ctxVars, monitoring,
               monitoring_task, stopPc, events, sweep, classified, obsVars>>

NextBroadcast ==
    \/ \E c \in Clients : WsConnect(c) /\ UNCHANGED bcastRest
    \/ \E c \in Clients : WsDisconnect(c) /\ UNCHANGED bcastRest
    \/ BroadcastBegin /\ UNCHANGED bcastRest
    \/ \E ok \in BOOLEAN : BroadcastSendOver(ok) /\ UNCHANGED bcastRest

SpecBroadcast == Init /\ [][NextBroadcast]_vars

(***************************************************************************)
(* Deleting several agents: delete_all_agents (agent_manager.py:497-511)   *)
(* and cleanup_workflow_agents (executor.py:930-947), with the monitor's   *)
(* log_agent_deleted able to fail                                          *)
(***************************************************************************)
\* The ids a loop over targets hands to delete_agent before the first one
\* whose deletion event fails; 0 when none fails.  Both loops go through the
\* ids in creation order.  delete_agent has no try/except (lines 469-495):
\* an exception of log_agent_deleted leaves it before `del self.agents[...]`.
FirstFailing(targets, failing) ==
    IF targets \cap agents \cap failing = {} THEN 0
    ELSE CHOOSE f \in targets \cap agents \cap failing :
            \A g \in targets \cap agents \cap failing : f <= g

Reached(targets, failing) ==
    IF FirstFailing(targets, failing) = 0 THEN targets \cap agents
    ELSE {a \in targets \cap agents : a < FirstFailing(targets, failing)}

\* agent.cleanup() ran (agent.py:329-333) for the ids in cleaned; those in
\* removed were also taken out of the map.
SweepEffect(cleaned, removed) ==
    /\ agents' = agents \ removed
    /\ status' = [a \in Ids |-> IF a \in cleaned THEN "DELETED" ELSE status[a]]
    /\ hist' = [a \in Ids |-> IF a \in cleaned THEN HistAfter(hist[a], "DELETED") ELSE hist[a]]
    /\ session_id' = [a \in Ids |-> IF a \in cleaned THEN NoSession ELSE session_id[a]]
    /\ deletedOk' = deletedOk \cup removed
    /\ UNCHANGED <<nextId, hasCb, metrics, execPc, execOut, execRes, sendPc, sendOut,
                   nblocks, calls, fed, lastDelete>>

\* One loop of delete_agent calls over targets; failing are the agents for
\* which the emission of the deletion event raises.
SweepAgents(targets, failing) ==
    /\ IF FirstFailing(targets, failing) = 0
          THEN /\ SweepEffect(Reached(targets, failing), Reached(targets, failing))
               /\ sweep' = [pc |-> "returned", targets |-> targets,
                            count |-> Cardinality(Reached(targets, failing))]
          ELSE /\ SweepEffect(Reached(targets, failing) \cup {FirstFailing(targets, failing)},
                              Reached(targets, failing))
               /\ sweep' = [pc |-> "raised", targets |-> targets, count |-> 0]

\* delete_all_agents: agent_ids = list(self.agents.keys()).
SweepDeleteAll(failing) == SweepAgents(agents, failing)

\* cleanup_workflow_agents(task): the ids in task.assigned_agents, present
\* in the map or not.
SweepCleanupWorkflow(assigned_agents, failing) == SweepAgents(assigned_agents, failing)

(***************************************************************************)
(* SpecSweep: agents are created, run and deleted in bulk                  *)
(***************************************************************************)
sweepRest == <<planVars, metricVars, toolVars, ctxVars, monitoring, monitoring_task, stopPc,
               events, active_connections, bcast, received, classified, obsVars>>

NextSweep ==
    \/ CreateAgent /\ UNCHANGED <<metricVars, toolVars, ctxVars, extraVars>>
    \/ \E a \in Ids : ExecuteTask(a) /\ UNCHANGED <<sweep, sweepRest>>
    \/ \E a \in Ids : ExecStreamEnd(a) /\ UNCHANGED <<sweep, sweepRest>>
    \/ \E failing \in SUBSET Ids : SweepDeleteAll(failing) /\ UNCHANGED sweepRest
    \/ \E assigned_agents \in SUBSET Ids, failing \in SUBSET Ids :
          SweepCleanupWorkflow(assigned_agents, failing) /\ UNCHANGED sweepRest

SpecSweep == Init /\ [][NextSweep]_vars

(***************************************************************************)
(* The metrics of a session over several calls: execute_task and           *)
(* send_message on the same Agent (agent.py:80-209)                        *)
(***************************************************************************)
\* execute_task is called on a session that is not running (line 90).
LifeExecuteTask(i) ==
    /\ subPhase[i] \in {"new", "done"}
    /\ calls < MaxTurns
    /\ calls' = calls + 1
    /\ subPhase' = [subPhase EXCEPT ![i] = "running"]
    /\ UNCHANGED <<subMetrics, subResults, aggregated, task, delivered, toolVars>>

\* send_message is called on a session that has run (line 179).
LifeSendMessage(i) ==
    /\ subPhase[i] = "done"
    /\ calls < MaxTurns
    /\ calls' = calls + 1
    /\ subPhase' = [subPhase EXCEPT ![i] = "sending"]
    /\ UNCHANGED <<subMetrics, subResults, aggregated, task, delivered, toolVars>>

\* A ResultMessage in either kind of call (lines 127-129, 202-203).
LifeResultMessage(i, usage, cost) ==
    /\ subPhase[i] \in {"running", "sending"}
    /\ delivered < MaxMessages
    /\ delivered' = delivered + 1
    /\ subMetrics' = [subMetrics EXCEPT ![i] = UpdateMetricsFromResult(@, usage, cost)]
    /\ UNCHANGED <<subPhase, subResults, aggregated, task, calls, toolVars>>

\* A ToolUseBlock in either kind of call (lines 118-119, 197-198).
LifeToolUse(i, name, path) ==
    /\ subPhase[i] \in {"running", "sending"}
    /\ delivered < MaxMessages
    /\ delivered' = delivered + 1
    /\ tool_calls' = [tool_calls EXCEPT ![i] = Append(@, ToolCall(name, path))]
    /\ subMetrics' = [subMetrics EXCEPT ![i] = TrackToolUseMetrics(@, name, path)]
    /\ toolUses' = [toolUses EXCEPT ![i] = Append(@, [name |-> name, path |-> path])]
    /\ UNCHANGED <<toolGhost, subPhase, subResults, aggregated, task, calls>>

\* execute_task ends (lines 134-149 or 151-166) after secs seconds.
LifeExecuteOver(i, ok, secs) ==
    /\ UsageFinish(i, ok, 1, secs)
    /\ UNCHANGED <<calls, toolVars>>

\* send_message ends: lines 207-209, or the stream raises and the exception
\* leaves send_message, which has no except branch.
LifeSendOver(i, ok) ==
    /\ subPhase[i] = "sending"
    /\ subMetrics' = [subMetrics EXCEPT ![i].messages_sent = IF ok THEN @ + 1 ELSE @]
    /\ subPhase' = [subPhase EXCEPT ![i] = "done"]
    /\ UNCHANGED <<subResults, aggregated, task, delivered, calls, toolVars>>

(***************************************************************************)
(* SpecLifetime: sessions are called again and again                       *)
(***************************************************************************)
lifeRest == <<agents, nextId, status, session_id, hasCb, metrics, execPc, execOut, execRes,
              sendPc, sendOut, nblocks, fed, hist, deletedOk, lastDelete, planVars,
              ctxVars, extraVars>>

NextLifetime ==
    \/ \E i \in Indices : LifeExecuteTask(i) /\ UNCHANGED lifeRest
    \/ \E i \in Indices : LifeSendMessage(i) /\ UNCHANGED lifeRest
    \/ \E i \in Indices, usage \in UsageShapes, cost \in Costs :
          LifeResultMessage(i, usage, cost) /\ UNCHANGED lifeRest
    \/ \E i \in Indices, name \in ToolNames, path \in Paths \cup {NoPath} :
          LifeToolUse(i, name, path) /\ UNCHANGED lifeRest
    \/ \E i \in Indices, ok \in BOOLEAN, secs \in CallSeconds :
          LifeExecuteOver(i, ok, secs) /\ UNCHANGED lifeRest
    \/ \E i \in Indices, ok \in BOOLEAN : LifeSendOver(i, ok) /\ UNCHANGED lifeRest

SpecLifetime == InitUsage /\ [][NextLifetime]_vars

(***************************************************************************)
(* The complexity of a task description: the planner's classifier          *)
(* (TaskPlanner._estimate_task_complexity) and the dashboard's create_task *)
(* endpoint (tasks.py:224-237)                                             *)
(***************************************************************************)
\* The word count from which a description is complex (tasks.py:225).
WordThreshold == 50

\* The keywords of the planner's classifier (tests, lines 226-237).
ComplexKeywords ==
    {"refactor", "redesign", "migrate", "architecture", "research", "analyze",
     "investigate", "comprehensive", "system", "multiple"}

\* How a word of a description is spelled.
Casings == {"lower", "upper", "capitalized"}

NoKeyword == [word |-> "None", casing |-> "lower"]

\* A description: plain words (none of them a keyword, in full or in part)
\* separated by blanks and at most one keyword in some spelling.
Descriptions ==
    [plain : 0..MaxWords,
     kw : {NoKeyword} \cup [word : ComplexKeywords, casing : Casings]]

\* len(description.split())
WordCount(d) == d.plain + (IF d.kw = NoKeyword THEN 0 ELSE 1)

\* description.lower(): every spelling becomes the lower-case one.
Lower(d) == [d EXCEPT !.kw.casing = "lower"]

\* any(keyword in description_lower for keyword in keywords)
ContainsKeyword(d) ==
    \E w \in ComplexKeywords : d.kw = [word |-> w, casing |-> "lower"]

\* TaskPlanner._estimate_task_complexity.
EstimateTaskComplexity(d) ==
    IF WordCount(d) < WordThreshold /\ ~ContainsKeyword(Lower(d)) THEN "simple" ELSE "complex"

\* create_task, line 225: the word count alone decides.
CreateTaskComplexity(d) ==
    IF WordCount(d) < WordThreshold THEN "simple" ELSE "complex"

\* The planner classifies a description.  A classification reads nothing an
\* earlier one left behind, so a behaviour holds one.
PlannerClassify(d) ==
    /\ classified.pc = "idle"
    /\ classified' = [pc |-> "planner", description |-> d,
                   complexity |-> EstimateTaskComplexity(d)]

\* POST /tasks stores a task with the complexity of its description.
DashboardCreateTask(d) ==
    /\ classified.pc = "idle"
    /\ classified' = [pc |-> "dashboard", description |-> d,
                   complexity |-> CreateTaskComplexity(d)]

(***************************************************************************)
(* SpecComplexity: descriptions are classified                             *)
(***************************************************************************)
complexityRest == <<sessionVars, planVars, metricVars, toolVars, ctxVars, monitoring,
                    monitoring_task, stopPc, events, active_connections, bcast, received,
                    sweep, obsVars>>

NextComplexity ==
    \/ \E d \in Descriptions : PlannerClassify(d) /\ UNCHANGED complexityRest
    \/ \E d \in Descriptions : DashboardCreateTask(d) /\ UNCHANGED complexityRest

SpecComplexity == Init /\ [][NextComplexity]_vars

(***************************************************************************)
(* The loop of execute_sequential over a whole plan (executor.py:330-391): *)
(* prompts, results and contexts.  The agent created for subtask k is      *)
(* identified with k.                                                      *)
(***************************************************************************)
\* subtask["description"] of subtask k: every subtask has its own.
SubtaskDescription(k) == <<"task", ToString(k)>>

\* What an agent's execute_task returns as text: nothing, text without a
\* section, and text with a section the next agent is to get.
ChainOutputs ==
    {<<>>, <<"alpha">>, <<"## Summary", "alpha">>, <<"## Key Findings", "- item">>}

\* Lines 355-361: the prompt of subtask k given previous_context.
ChainPromptFor(k, prev) ==
    IF prev.kind = "None" \/ GetForwardContext(prev) = <<>> THEN SubtaskDescription(k)
    ELSE SubtaskDescription(k) \o <<"">> \o GetForwardContext(prev)

\* The TaskResult of agent k: execute_task gives output=None with a failure.
ChainResult(k, success, out) ==
    IF success THEN SessionResult(k, TRUE, out, NoError, <<>>)
    ELSE SessionResult(k, FALSE, NoneOutput, "stream error", <<>>)

\* if result.success and result.output (line 375).
Extractable(result) == result.success /\ result.output # <<>>

\* previous_context after lines 375-388.
ContextAfter_keepOnFailure(prev, result, agent_role) ==
    IF Extractable(result) THEN ExtractStructuredOutput(result.output, agent_role) ELSE prev

ContextAfter(prev, result, agent_role) ==
    IF Extractable(result) THEN ExtractStructuredOutput(result.output, agent_role)
    ELSE NoContext

\* One iteration up to the await of execute_task (lines 337-364).
ChainPrompt ==
    /\ mode = "chain"
    /\ exPc = "loop"
    /\ idx < nsub
    /\ prompts' = [prompts EXCEPT ![idx + 1] = ChainPromptFor(idx + 1, previous_context)]
    /\ exPc' = "await"
    /\ UNCHANGED <<idx, subResults, outputs, previous_context, agent_contexts, returned>>

\* execute_task has returned its TaskResult; lines 365-388.
ChainCollect(success, out) ==
    /\ mode = "chain"
    /\ exPc = "await"
    /\ success \/ out = <<>>
    /\ LET result == ChainResult(idx + 1, success, out)
       IN /\ subResults' = Append(subResults, result)
          /\ outputs' = [outputs EXCEPT ![idx + 1] = out]
          /\ agent_contexts' =
                IF Extractable(result)
                   THEN [agent_contexts EXCEPT ![idx + 1] =
                            ExtractStructuredOutput(result.output, RoleValue(ctxRole))]
                   ELSE agent_contexts
          /\ previous_context' = ContextAfter(previous_context, result, RoleValue(ctxRole))
    /\ idx' = idx + 1
    /\ exPc' = "loop"
    /\ UNCHANGED <<prompts, returned>>

\* Line 391: return results.
ChainReturn ==
    /\ mode = "chain"
    /\ exPc = "loop"
    /\ idx = nsub
    /\ returned' = subResults
    /\ exPc' = "returned"
    /\ UNCHANGED <<idx, subResults, outputs, previous_context, agent_contexts, prompts>>

(***************************************************************************)
(* SpecChain: execute_sequential runs a plan of up to MaxChain subtasks    *)
(***************************************************************************)
InitChain ==
    /\ SessionInit
    /\ mode = "chain"
    /\ nsub \in 1..MaxChain
    /\ dependencies = <<>>
    /\ assigned = <<>>
    /\ agentOf = <<>>
    /\ exPc = "loop"
    /\ idx = 0
    /\ subPc = <<>>
    /\ completed = {}
    /\ resultOf = <<>>
    /\ returned = <<>>
    /\ orchPc = "executing"
    /\ finishOrder = <<>>
    /\ MetricsIdle
    /\ ctxRole \in Roles
    /\ outputs = [k \in 1..nsub |-> <<>>]
    /\ previous_context = NoContext
    /\ agent_contexts = [k \in 1..nsub |-> NoContext]
    /\ prompts = [k \in 1..nsub |-> <<>>]
    /\ ExtraIdle

chainRest == <<sessionVars, mode, nsub, dependencies, assigned, agentOf, subPc, completed,
               resultOf, orchPc, finishOrder, subMetrics, subPhase, aggregated, task,
               delivered, toolVars, ctxRole, extraVars>>

NextChain ==
    \/ ChainPrompt /\ UNCHANGED chainRest
    \/ \E success \in BOOLEAN, out \in ChainOutputs : ChainCollect(success, out) /\ UNCHANGED chainRest
    \/ ChainReturn /\ UNCHANGED chainRest

SpecChain == InitChain /\ [][NextChain]_vars

(***************************************************************************)
(* OrchestratorExecutor.execute_task with its DashboardProgressTracker     *)
(* (orchestrator_executor.py:20-130, 146-285) around                       *)
(* WorkflowExecutor.execute_sequential (executor.py:305-385)               *)
(***************************************************************************)
Steps == 0..MaxSteps

\* The Task row after task.status = s.
DashStatus(d, s) == [d EXCEPT !.status = s, !.statusLog = Append(@, s)]

\* The except branch of execute_task (lines 278-285).
DashExcept(d) == [DashStatus(d, "FAILED") EXCEPT !.pc = "done"]

\* Agent.status of the row for every TaskResult (line 236).
RowsFromResults(results) ==
    [j \in 1..Len(results) |-> IF results[j] THEN "COMPLETED" ELSE "FAILED"]

\* Lines 156-206: the row is looked up; a missing row ends the call; else
\* the task goes IN_PROGRESS, the tracker is built with current_step = 0
\* and the planner returns a plan of n subtasks.
DashExecuteTask(found, n) ==
    /\ dash.pc = "idle"
    /\ dash' = IF found
                  THEN [DashStatus(dash, "IN_PROGRESS") EXCEPT
                           !.pc = "loop", !.n = n, !.tracker_step = 0]
                  ELSE [dash EXCEPT !.pc = "done"]
    /\ UNCHANGED <<tracker, prompt_file, task_prompt>>

\* Lines 166-206 with the import or the planner raising: the task goes
\* IN_PROGRESS and then FAILED.
DashPlanRaises ==
    /\ dash.pc = "idle"
    /\ dash' = DashExcept(DashStatus(dash, "IN_PROGRESS"))
    /\ UNCHANGED <<tracker, prompt_file, task_prompt>>

\* The next agent of the loop is created and its execute_task delivers
\* "started" (executor.py:320-322): the callback first awaits agent_created,
\* which adds the Agent row as IDLE (orchestrator_executor.py:42-60).
DashAgentCreated ==
    /\ dash.pc = "loop"
    /\ dash.k < dash.n
    /\ dash' = [dash EXCEPT !.pc = "created", !.agentRows = Append(@, "IDLE")]
    /\ UNCHANGED <<tracker, prompt_file, task_prompt>>

\* Then it awaits agent_started, which sets the row ACTIVE and writes the
\* tracker's current_step into the Task row (lines 62-87).
DashAgentStarted ==
    /\ dash.pc = "created"
    /\ dash' = [dash EXCEPT !.pc = "agent",
                            !.agentRows[dash.k + 1] = "ACTIVE",
                            !.current_step = dash.tracker_step,
                            !.started = Append(@, dash.tracker_step)]
    /\ UNCHANGED <<tracker, prompt_file, task_prompt>>

\* The agent's execute_task returns its TaskResult.  A failed call has
\* delivered "failed", which agent_failed records (lines 117-130); the
\* "completed" event is ignored (executor.py:329-331).  Then line 372 of
\* executor.py calls progress_tracker.agent_completed(...) without await:
\* the method is a coroutine function here, so the call only builds a
\* coroutine object that is dropped, and neither the row nor current_step
\* of the tracker changes.
DashAgentReturns(ok) ==
    /\ dash.pc = "agent"
    /\ dash' = [dash EXCEPT !.pc = "loop",
                            !.k = @ + 1,
                            !.results = Append(@, ok),
                            !.agentRows[dash.k + 1] = IF ok THEN @ ELSE "FAILED"]
    /\ UNCHANGED <<tracker, prompt_file, task_prompt>>

\* create_specialized_agent or execute_task raises: execute_sequential has
\* no try block, so the exception reaches the except branch of the service.
DashAgentRaises ==
    /\ dash.pc \in {"loop", "created", "agent"}
    /\ dash.k < dash.n
    /\ dash' = DashExcept(dash)
    /\ UNCHANGED <<tracker, prompt_file, task_prompt>>

\* Lines 220-276: the executor has returned the list; every row takes the
\* status of its result and the task is marked COMPLETED.  The commit and
\* the broadcast that follow are inside the try block: when one of them
\* raises, the except branch marks the task FAILED.
DashFinish(raises) ==
    /\ dash.pc = "loop"
    /\ dash.k = dash.n
    /\ LET d == [DashStatus(dash, "COMPLETED") EXCEPT
                    !.pc = "done", !.agentRows = RowsFromResults(dash.results)]
       IN dash' = IF raises THEN DashExcept(d) ELSE d
    /\ UNCHANGED <<tracker, prompt_file, task_prompt>>

(***************************************************************************)
(* SpecDashboard: one task of the dashboard is executed                    *)
(***************************************************************************)
dashRest == <<sessionVars, planVars, metricVars, toolVars, ctxVars, monitoring,
              monitoring_task, stopPc, events, active_connections, bcast, received,
              sweep, classified>>

NextDashboard ==
    \/ \E found \in BOOLEAN, n \in Steps : DashExecuteTask(found, n) /\ UNCHANGED dashRest
    \/ DashPlanRaises /\ UNCHANGED dashRest
    \/ DashAgentCreated /\ UNCHANGED dashRest
    \/ DashAgentStarted /\ UNCHANGED dashRest
    \/ \E ok \in BOOLEAN : DashAgentReturns(ok) /\ UNCHANGED dashRest
    \/ DashAgentRaises /\ UNCHANGED dashRest
    \/ \E raises \in BOOLEAN : DashFinish(raises) /\ UNCHANGED dashRest

SpecDashboard == Init /\ [][NextDashboard]_vars

(***************************************************************************)
(* ProgressTracker (progress.py:168-213) fed by the callback the executor  *)
(* gives every agent (executor.py:310-335) and by the executor's           *)
(* post-processing of a returned result (executor.py:364-372, 840-849)     *)
(***************************************************************************)
\* The tracker's entry after the callback has handled one event.  "started"
\* calls agent_created and agent_started; "failed" calls agent_failed, which
\* changes an entry that exists; "completed" is passed over (lines 329-331);
\* "thinking" and "tool_call" leave the status alone.
TrackerAfterEvent(t, e) ==
    CASE e = "started" -> [status |-> "RUNNING",
                           handlers |-> t.handlers \o <<"agent_created", "agent_started">>]
      [] e = "failed" -> [status |-> IF t.status = "None" THEN t.status ELSE "FAILED",
                          handlers |-> Append(t.handlers, "agent_failed")]
      [] OTHER -> t

RECURSIVE TrackerAfter(_, _)
TrackerAfter(t, es) ==
    IF es = <<>> THEN t ELSE TrackerAfter(TrackerAfterEvent(t, Head(es)), Tail(es))

\* ProgressTracker.agent_completed (lines 195-206).
AgentCompleted(t) ==
    [status |-> IF t.status = "None" THEN t.status ELSE "COMPLETED",
     handlers |-> Append(t.handlers, "agent_completed")]

\* The executor creates the agent of a subtask and sets its callback.
TrkCreateAgent ==
    /\ ProgCreateAgent
    /\ UNCHANGED tracker

\* The executor awaits agent.execute_task once for every agent it created;
\* the callback returns normally.
TrkExecuteTask(a) ==
    /\ get_agent(a) # 0
    /\ hasCb[a]
    /\ tracker[a].handlers = <<>>
    /\ ExecBegin(a)
    /\ events' = [events EXCEPT ![a] = <<"started">>]
    /\ tracker' = [tracker EXCEPT ![a] = TrackerAfterEvent(@, "started")]
    /\ UNCHANGED <<agents, nextId, session_id, hasCb, metrics, sendPc, sendOut, fed,
                   calls, deletedOk, lastDelete>>

TrkBlock(a, k) ==
    /\ ProgBlock(a, k)
    /\ tracker' = [tracker EXCEPT ![a] = TrackerAfter(@, BlockEvents(k))]

\* The stream raises: the except branch delivers "failed" and the failed
\* TaskResult is returned.
TrkStreamRaise(a) ==
    /\ ProgStreamRaise(a, FALSE)
    /\ tracker' = [tracker EXCEPT ![a] = TrackerAfterEvent(@, "failed")]

TrkStreamEnd(a) ==
    /\ ProgStreamEnd(a)
    /\ tracker' = [tracker EXCEPT ![a] = TrackerAfterEvent(@, "completed")]

\* executor.py:364-372 (and 840-849 after gather): the TaskResult is kept,
\* the completion is logged and progress_tracker.agent_completed is called,
\* whatever result.success is.
ExecutorCollect(a) ==
    /\ execPc[a] = "done"
    /\ tracker[a].handlers # <<>>
    /\ tracker[a].handlers[Len(tracker[a].handlers)] # "agent_completed"
    /\ tracker' = [tracker EXCEPT ![a] = AgentCompleted(@)]
    /\ UNCHANGED <<sessionVars, events>>

(***************************************************************************)
(* SpecTracker: the executor runs its agents under a ProgressTracker       *)
(***************************************************************************)
trackRest == <<planVars, metricVars, toolVars, ctxVars, monitoring, monitoring_task,
               stopPc, active_connections, bcast, received, sweep, classified, dash,
               prompt_file, task_prompt>>

NextTracker ==
    \/ TrkCreateAgent /\ UNCHANGED trackRest
    \/ \E a \in Ids : TrkExecuteTask(a) /\ UNCHANGED trackRest
    \/ \E a \in Ids, k \in ProgressKinds : TrkBlock(a, k) /\ UNCHANGED trackRest
    \/ \E a \in Ids : TrkStreamRaise(a) /\ UNCHANGED trackRest
    \/ \E a \in Ids : TrkStreamEnd(a) /\ UNCHANGED trackRest
    \/ \E a \in Ids : ExecutorCollect(a) /\ UNCHANGED trackRest

SpecTracker == Init /\ [][NextTracker]_vars

(***************************************************************************)
(* AgentLogger.log_prompt (agent_logger.py:90-95) as called by             *)
(* execute_task (agent.py:99) and send_message (agent.py:182)              *)
(***************************************************************************)
\* Texts of task prompts and of follow-up messages, as lists of words.
TaskPrompts == {<<"p1">>, <<"p2">>}
TurnMessages == {<<"m1">>, <<"m2">>}

\* f"[CONTINUE] {message}"
ContinueText(m) == <<"[CONTINUE]">> \o m

\* self.prompt_file.write_text(prompt): the file is created or truncated and
\* then holds the prompt.
LogPrompt(content, prompt) == prompt

\* agent.execute_task(p) on a session without a callback: RUNNING, then
\* the prompt is logged inside the try block.
LogExecuteTask(a, p) ==
    /\ get_agent(a) # 0
    /\ ~hasCb[a]
    /\ execPc[a] # "stream"
    /\ sendPc[a] # "stream"
    /\ calls < MaxTurns
    /\ calls' = calls + 1
    /\ ExecBegin(a)
    /\ prompt_file' = [prompt_file EXCEPT ![a] = LogPrompt(@, p)]
    /\ task_prompt' = [task_prompt EXCEPT ![a] = p]
    /\ UNCHANGED <<agents, nextId, session_id, hasCb, metrics, sendPc, sendOut, fed,
                   deletedOk, lastDelete>>

\* agent.send_message(m): RUNNING, then log_prompt of the marked message.
LogSendMessage(a, m) ==
    /\ get_agent(a) # 0
    /\ execPc[a] # "stream"
    /\ sendPc[a] # "stream"
    /\ calls < MaxTurns
    /\ calls' = calls + 1
    /\ SendBegin(a)
    /\ prompt_file' = [prompt_file EXCEPT ![a] = LogPrompt(@, ContinueText(m))]
    /\ UNCHANGED <<agents, nextId, session_id, hasCb, metrics, execPc, execOut,
                   execRes, fed, deletedOk, lastDelete, task_prompt>>

(***************************************************************************)
(* SpecLog: sessions take execute_task and send_message turns and log      *)
(* their prompts                                                           *)
(***************************************************************************)
logRest == <<metricVars, toolVars, ctxVars, monitoring, monitoring_task, stopPc, events,
             active_connections, bcast, received, sweep, classified, dash, tracker>>

NextLog ==
    \/ CreateAgent /\ UNCHANGED <<metricVars, toolVars, ctxVars, extraVars>>
    \/ \E a \in Ids, p \in TaskPrompts : LogExecuteTask(a, p) /\ UNCHANGED <<planVars, logRest>>
    \/ \E a \in Ids, m \in TurnMessages : LogSendMessage(a, m) /\ UNCHANGED <<planVars, logRest>>
    \/ \E a \in Ids : ExecStreamEnd(a) /\ UNCHANGED <<planVars, logRest, prompt_file, task_prompt>>
    \/ \E a \in Ids : ExecStreamRaise(a) /\ UNCHANGED <<planVars, logRest, prompt_file, task_prompt>>
    \/ \E a \in Ids : SendStreamEnd(a) /\ UNCHANGED <<planVars, logRest, prompt_file, task_prompt>>

SpecLog == Init /\ [][NextLog]_vars

(***************************************************************************)
(* Properties of sessions and of the registry                              *)
(***************************************************************************)

RECURSIVE UpToDeleted(_)
UpToDeleted(h) ==
    IF h = <<>> THEN <<>>
    ELSE IF Head(h) = "DELETED" THEN <<"DELETED">>
    ELSE <<Head(h)>> \o UpToDeleted(Tail(h))

WasDeleted(h) == \E i \in 1..Len(h) : h[i] = "DELETED"

ListedPaths ==
    { <<"CREATED", "RUNNING", "COMPLETED", "DELETED">>,
      <<"CREATED", "RUNNING", "FAILED", "DELETED">>,
      <<"CREATED", "DELETED">>,
      <<"CREATED", "RUNNING", "COMPLETED", "RUNNING", "WAITING", "DELETED">> }

\* C8: the statuses a session goes through from CREATED up to DELETED form
\* one of the four listed paths.
C8_StatusPaths ==
    \A a \in Ids : WasDeleted(hist[a]) => UpToDeleted(hist[a]) \in ListedPaths

\* C9: once delete_agent has deleted a session, its status stays DELETED and
\* its session_id stays cleared.
C9_DeletedIsTerminal ==
    \A a \in deletedOk : status[a] = "DELETED" /\ session_id[a] = NoSession

\* C10: after delete_agent(id) returned true, get_agent(id) returns nothing,
\* list_agents (with or without a status filter) and get_active_agents do not
\* contain the session, and a further delete_agent(id) returns false and
\* leaves the registry as it was.
C10_DeletedNeverReturned ==
    /\ [](\A a \in deletedOk :
            /\ get_agent(a) = 0
            /\ \A st \in AgentStatus \cup {"Any"} : a \notin list_agents(st)
            /\ a \notin get_active_agents)
    /\ [][(lastDelete' # lastDelete /\ lastDelete'.id \in deletedOk)
            => /\ lastDelete'.ret = FALSE
               /\ agents' = agents
               /\ status' = status]_vars

\* C10 witness: a second delete_agent on a deleted id, while another session
\* is still registered.
C10_Witness ==
    /\ lastDelete.id \in deletedOk
    /\ lastDelete.ret = FALSE
    /\ agents # {}



(***************************************************************************)
(* Properties of Orchestrator.execute and of the executor                  *)
(***************************************************************************)

C3_SequentialNoOverlap ==
    mode = "sequential"
        => /\ Cardinality({a \in SeqRange(assigned) : status[a] = "RUNNING"}) <= 1
           /\ Cardinality({a \in SeqRange(assigned) : execPc[a] = "stream"}) <= 1
           /\ \A i \in 2..nsub :
                 (agentOf[i] # 0 /\ execPc[agentOf[i]] # "idle")
                     => /\ execPc[agentOf[i - 1]] = "done"
                        /\ resultOf[i - 1] = execRes[agentOf[i - 1]]
                        /\ resultOf[i - 1].kind = "TaskResult"

\* C3 witness: the second agent of a sequential plan is RUNNING, the first
\* one has COMPLETED.
C3_Witness ==
    /\ mode = "sequential"
    /\ nsub >= 2
    /\ agentOf[2] # 0
    /\ status[agentOf[2]] = "RUNNING"
    /\ execPc[agentOf[2]] = "stream"
    /\ status[agentOf[1]] = "COMPLETED"

\* C4: the list execute_parallel returns has one TaskResult per subtask, and
\* the result at index i is the one of the agent created for subtask i, in
\* whatever order the agents finished.
C4_ParallelResultOrder ==
    (mode = "parallel" /\ exPc = "returned")
        => /\ DOMAIN returned = 1..nsub
           /\ Len(assigned) = nsub
           /\ \A i \in 1..nsub :
                 /\ returned[i].kind = "TaskResult"
                 /\ agentOf[i] = assigned[i]
                 /\ returned[i].agent_id = agentOf[i]

\* C4 witness: execute_parallel returned although the agent of the second
\* subtask finished before the agent of the first one.
C4_Witness ==
    /\ mode = "parallel"
    /\ exPc = "returned"
    /\ nsub >= 2
    /\ finishOrder[1] = 2
    /\ finishOrder[2] = 1
    /\ returned[1].agent_id = agentOf[1]

\* The outcome of the execute_task call of agent a is a failure.
CallFailed(a) ==
    \/ execRes[a].kind = "Exception"
    \/ execRes[a].kind = "TaskResult" /\ ~execRes[a].success

\* C5: when execute_parallel returns, the execute_task of every subtask has
\* run to its own end (none was cut short because a sibling failed), the
\* TaskResult a call returned is reported unchanged at its index, and every
\* call that failed or raised is reported with success = false and an error.
C5_ParallelSiblingsComplete ==
    (mode = "parallel" /\ exPc = "returned")
        => \A i \in 1..nsub :
              /\ execPc[agentOf[i]] \in {"done", "raised"}
              /\ execRes[agentOf[i]].kind # "None"
              /\ execRes[agentOf[i]].kind = "TaskResult" => returned[i] = execRes[agentOf[i]]
              /\ CallFailed(agentOf[i])
                    => /\ returned[i].kind = "TaskResult"
                       /\ returned[i].agent_id = agentOf[i]
                       /\ ~returned[i].success
                       /\ returned[i].error # NoError

\* C5 witness: one subtask failed first (its stream raised after a message),
\* its sibling finished later and succeeded, and both results are reported.
C5_Witness ==
    /\ mode = "parallel"
    /\ exPc = "returned"
    /\ nsub >= 2
    /\ \E i, j \in 1..nsub :
          /\ i # j
          /\ finishOrder[1] = i
          /\ ~returned[i].success
          /\ returned[i].error # NoError
          /\ returned[j].success
          /\ returned[j].output > 0


(***************************************************************************)
(* Properties of execute_with_dependencies                                 *)
(***************************************************************************)

\* C6: the agent of subtask i is created, and its execute_task started, only
\* when every prerequisite index in dependencies[i] has finished its
\* execute_task and has its result recorded.
C6_PrerequisitesFirst ==
    mode = "dependencies"
        => \A i \in Indices :
              (agentOf[i] # 0 \/ subPc[i] \in {"created", "running", "finished"})
                  => \A d \in dependencies[i] :
                        /\ d \in completed
                        /\ agentOf[d] # 0
                        /\ execPc[agentOf[d]] = "done"
                        /\ resultOf[d].kind = "TaskResult"
                        /\ resultOf[d].agent_id = agentOf[d]

\* C6 witness: the agent of subtask 2, which depends on subtask 1, is running.
C6_Witness ==
    /\ mode = "dependencies"
    /\ nsub >= 2
    /\ dependencies[2] = {1}
    /\ subPc[2] = "running"
    /\ execPc[agentOf[2]] = "stream"

\* Every prerequisite index is smaller than the index that depends on it.
PrerequisitesSmaller == \A i \in Indices : \A d \in dependencies[i] : d < i

\* C7: for a dependency map whose prerequisite indices are all smaller than
\* the dependent index, execute_with_dependencies eventually returns, with
\* one TaskResult per subtask, the one at index i being that of subtask i.
C7_DependenciesTerminate ==
    (mode = "dependencies" /\ PrerequisitesSmaller)
        => <>(/\ exPc = "returned"
              /\ DOMAIN returned = 1..nsub
              /\ \A i \in Indices :
                    /\ returned[i].kind = "TaskResult"
                    /\ returned[i].agent_id = agentOf[i]
                    /\ returned[i] = execRes[agentOf[i]])

(***************************************************************************)
(* Properties of the metrics and of the aggregated result                  *)
(***************************************************************************)

\* C11: in every state, after any number of ResultMessages (whose usage may
\* lack some or all of the four counters), total_tokens of every session is
\* the sum of its four token counters, and so is total_tokens of the metrics
\* of the aggregated TaskResult.
C11_TokenAccounting ==
    /\ \A i \in DOMAIN subMetrics :
          subMetrics[i].total_tokens =
              subMetrics[i].input_tokens + subMetrics[i].output_tokens
                  + subMetrics[i].cache_creation_input_tokens
                  + subMetrics[i].cache_read_input_tokens
    /\ aggregated.kind = "TaskResult"
          => aggregated.metrics.total_tokens =
                aggregated.metrics.input_tokens + aggregated.metrics.output_tokens
                    + aggregated.metrics.cache_creation_input_tokens
                    + aggregated.metrics.cache_read_input_tokens

\* C11 witness: two sessions got ResultMessages whose usage dicts lack the
\* input counter, and their results have been aggregated.
C11_Witness ==
    /\ aggregated.kind = "TaskResult"
    /\ Len(subResults) >= 2
    /\ aggregated.metrics.cache_read_input_tokens > 0
    /\ aggregated.metrics.input_tokens = 0
    /\ aggregated.metrics.total_tokens >= 3
    /\ subMetrics[1].total_tokens >= 2
    /\ subMetrics[2].total_tokens > 0

(***************************************************************************)
(* Properties of the tool tracking of a session                            *)
(***************************************************************************)
\* C12: every ToolResultBlock handed to _track_tool_result fills the result
\* of exactly one ToolCall, the most recently recorded one that has not yet
\* received a result, with the block's content whatever it is (an empty
\* content included) and with success = not is_error; it alters no call
\* that already received a result, and no other call.
C12_ResultFillsMostRecent ==
    [][\A i \in DOMAIN toolGhost :
          toolGhost'[i].tracked # toolGhost[i].tracked =>
             LET open == (1..Len(tool_calls[i])) \ toolGhost[i].filled
             IN IF open = {} THEN tool_calls'[i] = tool_calls[i]
                ELSE /\ Len(tool_calls'[i]) = Len(tool_calls[i])
                     /\ tool_calls'[i][MaxOf(open)].result = toolGhost'[i].content
                     /\ tool_calls'[i][MaxOf(open)].success = ~toolGhost'[i].is_error
                     /\ \A k \in 1..Len(tool_calls[i]) :
                           k # MaxOf(open) => tool_calls'[i][k] = tool_calls[i][k]]_vars

\* C13: after an execute_task that ended in COMPLETED on a stream that
\* delivered a ToolResultBlock for every ToolUseBlock, in an AssistantMessage
\* or in a UserMessage, every recorded ToolCall has a result.
C13_CompletedCallsHaveResults ==
    \A i \in DOMAIN toolGhost :
        (/\ subPhase[i] = "done"
         /\ \E k \in 1..Len(subResults) :
               subResults[k].agent_id = i /\ subResults[k].success
         /\ toolGhost[i].answered = 1..Len(tool_calls[i]))
        => \A k \in 1..Len(tool_calls[i]) : tool_calls[i][k].result # NoToolResult

\* The file_path values, in stream order, of the tool uses of the given
\* names that carry one.
PathsUsed(uses, names) ==
    LET Touches(u) == u.name \in names /\ Truthy(u.path)
        sel == SelectSeq(uses, Touches)
    IN [k \in 1..Len(sel) |-> sel[k].path]

FirstIndex(q, x) == CHOOSE k \in 1..Len(q) : q[k] = x /\ \A j \in 1..(k - 1) : q[j] # x

\* list holds every element of q once, ordered by first appearance in q.
IsFirstAppearanceList(list, q) ==
    /\ SeqRange(list) = SeqRange(q)
    /\ \A a, b \in 1..Len(list) :
          a < b => list[a] # list[b] /\ FirstIndex(q, list[a]) < FirstIndex(q, list[b])

\* C14: in every state of a session, files_read holds exactly the distinct
\* file_path values of the Read uses seen so far and files_written those of
\* the Write and Edit uses, each once and in order of first appearance, and
\* tool_calls counts every ToolUseBlock, repeated ones included.
C14_FilesTracked ==
    \A i \in DOMAIN toolUses :
        /\ IsFirstAppearanceList(subMetrics[i].files_read, PathsUsed(toolUses[i], {"Read"}))
        /\ IsFirstAppearanceList(subMetrics[i].files_written,
                                 PathsUsed(toolUses[i], {"Write", "Edit"}))
        /\ subMetrics[i].tool_calls = Len(toolUses[i])

(***************************************************************************)
(* Properties of the context passing                                       *)
(***************************************************************************)
FiveSections ==
    {"## Summary", "## Files Created", "## Files Modified", "## Key Findings",
     "## Recommendations for Next Agent"}

\* The output with every line outside the five sections blanked out.
SectionsOf(out) ==
    [k \in 1..Len(out) |->
        IF \E i \in 1..k : /\ out[i] \in FiveSections
                           /\ \A j \in (i + 1)..k : ~IsHeading(out[j])
           THEN out[k] ELSE "other"]

\* C15: when the outputs of the previous agent in two runs have the same
\* content in the five sections and differ only in other text, the next
\* agent gets the same prompt in both runs.
C15_PromptFromSectionsOnly ==
    (/\ DOMAIN prompts = Runs
     /\ \A r \in Runs : prompts[r] # <<>> /\ agent_contexts[r].kind = "AgentContext"
     /\ SectionsOf(outputs[1]) = SectionsOf(outputs[2]))
    => prompts[1] = prompts[2]

\* C16: the AgentContext stored for a TESTER whose output reports failed
\* tests has requires_fix true, and false when it reports none; the one of a
\* REVIEWER whose output holds an issue indicator has requires_fix true.
C16_RequiresFix ==
    \A r \in DOMAIN agent_contexts :
        agent_contexts[r].kind = "AgentContext" =>
            /\ ctxRole = "TESTER" =>
                  (agent_contexts[r].requires_fix <=>
                      \E k \in 1..Len(outputs[r]) : outputs[r][k] = "2 failed")
            /\ (ctxRole = "REVIEWER"
                  /\ \E k \in 1..Len(outputs[r]) : outputs[r][k] = "issues found")
               => agent_contexts[r].requires_fix

(***************************************************************************)
(* Properties of the aggregation in Orchestrator.execute                   *)
(***************************************************************************)
\* C17: when Orchestrator.execute returns, the stored task is FAILED if and
\* only if some subtask TaskResult has success false, and COMPLETED
\* otherwise; the success flag of the aggregated TaskResult agrees with the
\* status, and completed_at is set.
C17_TaskStatusFromResults ==
    aggregated.kind # "None" =>
        /\ task.status = "FAILED" <=> \E k \in 1..Len(subResults) : ~subResults[k].success
        /\ task.status = "COMPLETED" <=> \A k \in 1..Len(subResults) : subResults[k].success
        /\ aggregated.success <=> task.status = "COMPLETED"
        /\ task.completed_at # "None"
        /\ task.result = "aggregated"

\* Witness of C17: a plan of two subtasks whose first failed and whose second
\* succeeded has been aggregated, and the task is FAILED.
C17_Witness ==
    /\ aggregated.kind # "None"
    /\ Len(subResults) = 2
    /\ ~subResults[1].success
    /\ subResults[2].success
    /\ task.status = "FAILED"
    /\ ~aggregated.success

\* The first subtask result that failed (0: none).
FirstFailed ==
    IF \E k \in 1..Len(subResults) : ~subResults[k].success
       THEN MinOf({k \in 1..Len(subResults) : ~subResults[k].success}) ELSE 0

\* C18: when some subtask failed, the aggregated TaskResult has success false
\* and an error that is set, from the error of the first failing subtask.
C18_AggregatedError ==
    (aggregated.kind # "None" /\ FirstFailed # 0) =>
        /\ ~aggregated.success
        /\ aggregated.error # NoError

\* The numeric fields of AgentMetrics.
NumericFields ==
    {"input_tokens", "output_tokens", "cache_creation_input_tokens",
     "cache_read_input_tokens", "total_tokens", "total_cost", "tool_calls",
     "messages_sent", "execution_time_seconds"}

\* The sum of a field over the metrics of the first k subtask results.
RECURSIVE SumField(_, _)
SumField(f, k) ==
    IF k = 0 THEN 0 ELSE subMetrics[subResults[k].agent_id][f] + SumField(f, k - 1)

\* The results that have an output, and the j-th of them in subtask order.
WithOutput == {k \in 1..Len(subResults) : HasOutput(subResults[k])}

NthWithOutput(j) ==
    CHOOSE k \in WithOutput : Cardinality({m \in WithOutput : m <= k}) = j

\* C19: for a non-empty list of subtask results, every numeric field of the
\* aggregated metrics is the sum of the field over the results, and the
\* aggregated output is the outputs of the subtasks in subtask order, each
\* prefixed with its agent id.
C19_AggregationSums ==
    (aggregated.kind # "None" /\ subResults # <<>>) =>
        /\ \A f \in NumericFields : aggregated.metrics[f] = SumField(f, Len(subResults))
        /\ Len(aggregated.output) = Cardinality(WithOutput)
        /\ \A j \in 1..Len(aggregated.output) :
              aggregated.output[j] = << subResults[NthWithOutput(j)].agent_id,
                                        subResults[NthWithOutput(j)].output >>

\* Witness of C19: two subtasks, each with a tool call and an output, have
\* been aggregated.
C19_Witness ==
    /\ aggregated.kind # "None"
    /\ Len(subResults) = 2
    /\ subMetrics[1].tool_calls = 1
    /\ subMetrics[2].tool_calls = 1
    /\ aggregated.metrics.tool_calls = 2
    /\ aggregated.metrics.messages_sent = 2
    /\ aggregated.metrics.execution_time_seconds = 2
    /\ aggregated.output = << <<1, 1>>, <<2, 1>> >>

\* The paths the subtasks touched with the given tools, in subtask order.
RECURSIVE PathsTouched(_, _)
PathsTouched(names, k) ==
    IF k = 0 THEN <<>>
    ELSE PathsTouched(names, k - 1) \o PathsUsed(toolUses[subResults[k].agent_id], names)

\* C20: in the aggregated TaskResult, files_read, files_written and artifacts
\* each hold every path a subtask touched exactly once, in order of first
\* appearance across the subtasks in subtask order.
C20_AggregatedFilesDistinct ==
    aggregated.kind # "None" =>
        /\ IsFirstAppearanceList(aggregated.metrics.files_read,
                                 PathsTouched({"Read"}, Len(subResults)))
        /\ IsFirstAppearanceList(aggregated.metrics.files_written,
                                 PathsTouched({"Write", "Edit"}, Len(subResults)))
        /\ IsFirstAppearanceList(aggregated.artifacts,
                                 PathsTouched({"Write", "Edit"}, Len(subResults)))

(***************************************************************************)
(* Properties of Orchestrator.start / stop                                 *)
(***************************************************************************)
\* C21: a stop() called on an orchestrator started with monitoring, at any
\* point after start() returned, eventually returns, and when it has
\* returned the registry is empty.
C21_StopReturns ==
    /\ (stopPc = "awaiting") ~> (stopPc = "returned")
    /\ [](stopPc = "returned" => agents = {})

(***************************************************************************)
(* Properties of the progress events                                       *)
(***************************************************************************)
CallOverFor(a) == hasCb[a] /\ execPc[a] \in {"done", "raised"}

TerminalEvents == {"completed", "failed"}

\* C22: for a finished execute_task call on a session with a callback, the
\* first event is started, the last is completed or failed, and no
\* thinking, tool_call or metric update comes after a terminal event.
C22_ProgressOrdering ==
    \A a \in Ids : CallOverFor(a) =>
        /\ events[a][1] = "started"
        /\ events[a][Len(events[a])] \in TerminalEvents
        /\ \A i \in 1..Len(events[a]) :
              events[a][i] \in TerminalEvents => i = Len(events[a])

\* C29: execute_task never raises to its caller, whatever the progress
\* callback does, and a call whose stream was consumed to completion (the
\* "completed" event was reached) returns a successful TaskResult.
C29_CallbackNeverEscapes ==
    \A a \in Ids : CallOverFor(a) =>
        /\ execPc[a] = "done"
        /\ execRes[a].kind = "TaskResult"
        /\ (\E i \in 1..Len(events[a]) : events[a][i] = "completed") => execRes[a].success

(***************************************************************************)
(* Properties of the dashboard's publications                              *)
(***************************************************************************)
Increasing(log) == \A i, j \in 1..Len(log) : i < j => log[i] < log[j]

HasMessage(c, n) == \E i \in 1..Len(received[c].log) : received[c].log[i] = n

\* C23: a publication never raises to the publisher; once it has returned,
\* every subscriber whose send failed is out of the subscriber set and every
\* other subscriber registered throughout has the message; each subscriber
\* has the messages in publication order.
C23_BestEffortBroadcast ==
    /\ bcast.pc # "raised"
    /\ bcast.pc = "returned" =>
          /\ bcast.disconnected \cap active_connections = {}
          /\ \A c \in (bcast.start \cap active_connections) : HasMessage(c, bcast.n)
    /\ \A c \in Clients : Increasing(received[c].log)

(***************************************************************************)
(* Properties of bulk deletion                                             *)
(***************************************************************************)
\* C24: delete_all_agents and cleanup_workflow_agents never raise, whatever
\* fails inside delete_agent, and when they are over none of the agents they
\* were to delete is left in the registry.
C24_DeleteFailureSwallowed ==
    /\ sweep.pc # "raised"
    /\ sweep.pc # "idle" => sweep.targets \cap agents = {}

(***************************************************************************)
(* Properties of update_agent_status                                       *)
(***************************************************************************)
\* The moves of the session state machine: CREATED -> RUNNING ->
\* COMPLETED | FAILED -> DELETED, a COMPLETED session going to RUNNING and
\* then WAITING for a further message, and deletion from any state.
LegalTransitions ==
    { <<"CREATED", "RUNNING">>, <<"RUNNING", "COMPLETED">>, <<"RUNNING", "FAILED">>,
      <<"COMPLETED", "RUNNING">>, <<"RUNNING", "WAITING">>, <<"WAITING", "RUNNING">> }
    \cup { <<s, "DELETED">> : s \in AgentStatus \ {"DELETED"} }

\* A step of update_agent_status: a call is counted and neither execute_task
\* nor send_message changes its position.
IsUpdateStatusStep == calls' = calls + 1 /\ execPc' = execPc /\ sendPc' = sendPc

\* C25: update_agent_status changes a session's status only along a legal
\* transition of the state machine.
C25_UpdateStatusLegal ==
    [][IsUpdateStatusStep =>
          \A a \in Ids : status'[a] # status[a] => <<status[a], status'[a]>> \in LegalTransitions]_vars

(***************************************************************************)
(* Properties of the order of sequential execution                         *)
(***************************************************************************)
\* The sequential executor starts the agent of its next subtask (line 364),
\* which is not the first of the plan.
IsSeqStartOfLater == mode = "sequential" /\ exPc = "start" /\ exPc' = "await" /\ idx >= 1

\* C26 as stated: whenever agent N (N >= 1) starts in sequential execution,
\* agent N-1 is in state COMPLETED.
C26_PredecessorCompleted ==
    [][IsSeqStartOfLater => status[agentOf[idx]] = "COMPLETED"]_vars

\* C26 amended: whenever agent N (N >= 1) starts in sequential execution,
\* agent N-1 is in state COMPLETED or FAILED, its execute_task having
\* returned.
C26_PredecessorFinished ==
    [][IsSeqStartOfLater =>
          /\ status[agentOf[idx]] \in {"COMPLETED", "FAILED"}
          /\ execPc[agentOf[idx]] = "done"]_vars

C26_Witness ==
    /\ mode = "sequential"
    /\ idx >= 1
    /\ exPc = "await"
    /\ status[agentOf[idx + 1]] = "RUNNING"
    /\ status[agentOf[idx]] = "FAILED"

(***************************************************************************)
(* Properties of a session's metrics over its lifetime                     *)
(***************************************************************************)
IsPrefixOf(p, q) == Len(p) <= Len(q) /\ \A k \in 1..Len(p) : p[k] = q[k]

\* C27: over any sequence of execute_task and send_message calls, no counter
\* of a session's metrics decreases and files_read and files_written lose no
\* entry.
C27_MetricsMonotonic ==
    [][\A i \in Indices :
          /\ \A f \in NumericFields : subMetrics'[i][f] >= subMetrics[i][f]
          /\ IsPrefixOf(subMetrics[i].files_read, subMetrics'[i].files_read)
          /\ IsPrefixOf(subMetrics[i].files_written, subMetrics'[i].files_written)]_vars

(***************************************************************************)
(* Properties of the complexity classification                             *)
(***************************************************************************)
HasNoKeyword(d) == d.kw.word \notin ComplexKeywords

\* C28: wherever the complexity of a description is computed, by the planner
\* or by the dashboard's create_task, it is simple exactly when the
\* description has fewer than 50 words and holds no keyword in any spelling.
C28_ComplexityHeuristic ==
    classified.pc # "idle" =>
        (classified.complexity = "simple"
            <=> (WordCount(classified.description) < 50 /\ HasNoKeyword(classified.description)))

(***************************************************************************)
(* Properties of the sequential loop after a failed or silent subtask      *)
(***************************************************************************)
FailedOrSilent(r) == ~r.success \/ r.output = <<>>

\* C30: the prompt built for a subtask whose predecessor failed or returned
\* no text is the subtask's own description; the list returned has one
\* TaskResult per subtask, in order; and agent_contexts holds an entry for an
\* agent exactly when its result succeeded with text.
C30_FailureClearsContext ==
    /\ \A k \in 2..nsub :
          (mode = "chain" /\ prompts[k] # <<>> /\ FailedOrSilent(subResults[k - 1]))
             => prompts[k] = SubtaskDescription(k)
    /\ (mode = "chain" /\ exPc = "returned") =>
          /\ Len(returned) = nsub
          /\ \A k \in 1..nsub : returned[k].kind = "TaskResult" /\ returned[k].agent_id = k
    /\ mode = "chain" =>
          \A k \in 1..Len(subResults) :
             agent_contexts[k].kind = "AgentContext" <=> ~FailedOrSilent(subResults[k])

C30_Witness ==
    /\ mode = "chain"
    /\ exPc = "returned"
    /\ nsub >= 3
    /\ returned[1].success
    /\ agent_contexts[1].kind = "AgentContext"
    /\ GetForwardContext(agent_contexts[1]) # <<>>
    /\ ~returned[2].success
    /\ prompts[3] = SubtaskDescription(3)

(***************************************************************************)
(* Properties of execute_with_dependencies on malformed maps               *)
(***************************************************************************)
\* Some subtasks wait for one another in a circle, a subtask that names
\* itself included.
HasCycle ==
    \E S \in SUBSET Indices :
        S # {} /\ \A i \in S : dependencies[i] \cap S # {}

\* C31: execute_with_dependencies called with a dependency map that holds a
\* cycle or a self-dependency eventually ends, by returning or by raising.
C31_MalformedMapTerminates ==
    (mode = "dependencies" /\ HasCycle) => <>(exPc \in {"returned", "raised"})

(***************************************************************************)
(* Properties of a session's status after a call                           *)
(***************************************************************************)
\* A call on session a is over and none is in flight.
NoCallInFlight(a) ==
    /\ execPc[a] \in {"done", "raised"} \/ sendPc[a] \in {"done", "raised"}
    /\ execPc[a] # "stream"
    /\ sendPc[a] # "stream"

\* C32: once an execute_task or send_message call on a session is over, by
\* returning or by raising, the session is not RUNNING.
C32_NotRunningAfterCall ==
    \A a \in Ids : NoCallInFlight(a) => status[a] # "RUNNING"

\* C33: the dashboard task is COMPLETED only when every TaskResult of the
\* executor has success = true, it is FAILED when the call is over and some
\* result has success = false, and a COMPLETED or FAILED task never changes
\* status again.
DashTerminal == {"COMPLETED", "FAILED"}

C33_CompletedOnlyOnSuccess ==
    /\ dash.status = "COMPLETED" => \A j \in 1..Len(dash.results) : dash.results[j]
    /\ (dash.pc = "done" /\ \E j \in 1..Len(dash.results) : ~dash.results[j])
          => dash.status = "FAILED"
    /\ \A j \in 1..(Len(dash.statusLog) - 1) : dash.statusLog[j] \notin DashTerminal

\* C35: when the k-th agent (0-based) of the sequential workflow starts,
\* the task's current_step is set to k, the completion handler having run
\* once for every agent that finished before.
C35_CurrentStepIsIndex ==
    /\ \A j \in 1..Len(dash.started) : dash.started[j] = j - 1
    /\ dash.pc = "loop" => dash.tracker_step = dash.k

\* C34: once an agent's execute_task has returned and the executor has done
\* its post-processing, the progress tracker holds COMPLETED for the agent
\* exactly when its TaskResult has success = true and FAILED otherwise, and
\* no failure recorded for an agent is followed by a completion record.
PostProcessed(a) ==
    /\ tracker[a].handlers # <<>>
    /\ tracker[a].handlers[Len(tracker[a].handlers)] = "agent_completed"

C34_TrackerMatchesResult ==
    \A a \in Ids :
        PostProcessed(a) =>
            /\ tracker[a].status = (IF execRes[a].success THEN "COMPLETED" ELSE "FAILED")
            /\ \A i, j \in 1..Len(tracker[a].handlers) :
                  (i < j /\ tracker[a].handlers[i] = "agent_failed")
                      => tracker[a].handlers[j] # "agent_completed"

\* C36: after execute_task(p) and any number of send_message turns on the
\* session, prompt.txt still holds the task prompt p: the log only grows.
C36_PromptKept ==
    \A a \in Ids : IsPrefixOf(task_prompt[a], prompt_file[a])

\* C37: _aggregate_results modifies none of its inputs: over the step that
\* aggregates, every subtask TaskResult and the metrics of the agent that
\* produced it, files_read and files_written included, stay as they were.
IsAggregateStep == aggregated.kind = "None" /\ aggregated'.kind # "None"

C37_AggregateKeepsInputs ==
    [][IsAggregateStep => (subResults' = subResults /\ subMetrics' = subMetrics)]_vars

\* C38: whenever Orchestrator.execute has returned or raised for a stored
\* task, the task has a terminal status and completed_at set, so get_status
\* does not count it as active.
C38_TaskTerminalAfterExecute ==
    orchPc \in {"returned", "raised"} =>
        /\ task.status \in {"COMPLETED", "FAILED"}
        /\ task.completed_at # "None"

\* C39: a subscriber connecting or disconnecting while a broadcast is
\* suspended in a send never makes the broadcast raise to its producer, and
\* the broadcast skips no subscriber that was registered from its start to
\* its end.
C39_ConcurrentChangeHarmless ==
    /\ bcast.pc # "raised"
    /\ bcast.pc = "returned" =>
          (bcast.start \cap active_connections) \subseteq bcast.visited
====
